---- MODULE Spec2Model ----
(***************************************************************************)
(* Fruit-cutting game: ScoreSystem (src/src/components/ScoreSystem.js),    *)
(* the orchestrator FruitCuttingGame and the scene GameScene               *)
(* (src/src/index.js).                                                     *)
(*                                                                         *)
(* Units.  Time is counted in whole seconds; the spawn interval is kept in *)
(* half seconds (2.5 s = 5) and compared against twice the elapsed time.   *)
(* Positions are whole world units, velocities world units per second.     *)
(* A stored wall-clock reading (lastFrameTime, THREE.Clock.oldTime) is     *)
(* kept as the time elapsed since it was taken, NULL when it is unset.     *)
(***************************************************************************)
EXTENDS Integers, Sequences, FiniteSets, TLC

\* ---------------------------------------------------------------- bounds
\* longest gap kept in a stored wall-clock reading
MaxElapsed == 60
\* the coarse step of wall-clock time (a frame gap of a backgrounded tab)
BigDt == 60
\* one-second steps are explored while the scene's gameTime is below this
MaxFineTime == 3
\* and while no stored reading gets older than this
MaxFineGap == 1
\* no wall-clock time passes once the scene's gameTime reached this
MaxGameTime == 64
\* the harness of the ScoreSystem stops cutting fruit at this score
MaxScore == 20
\* interval timers ever created, pending gameLoop callbacks, live objects
MaxTimers == 4
MaxLoops == 2
MaxObjects == 2
\* how far below 0 a countdown is followed, and how far a timer's firings
\* are counted
MaxOverrun == 1
MaxTicks == 4

\* ------------------------------------------------------ program constants
ScoreSystem_gameTime == 60
fruitCut == 10
bombCut == 0 - 20
\* ModernHandTracker's detectionIntervalMs after construction
initialDetectionIntervalMs == 16
historyLength == 3

fruitTypes == <<"apple", "watermelon", "orange", "banana", "pineapple">>

NULL == 0 - 1

VARIABLES
    \* FruitCuttingGame
    gameState, startCountdown, startCountdownTimer,
    restartCountdown, restartCountdownTimer, lastFrameTime,
    startActive, restartActive, countdownText, restartText,
    startScreenHidden, pauseScreenHidden, gameOverScreenHidden,
    \* host environment: interval timers, pending gameLoop frame callbacks
    timers, nextTimerId, loopPending,
    \* ScoreSystem
    score, timeRemaining, isGameOver,
    \* GameScene
    isPaused, clockRunning, clockAutoStart, clockOldTime,
    gameTime, spawnInterval, lastSpawnTime, fruits, bombs, cuttingPaths,
    \* HandTracking / ModernHandTracker
    hands, tracker, trails, isInitialized, sinceDetection,
    detectionIntervalMs,
    \* observation of the last handler run
    lastOp, fired, cut, spawned, skipped, gameOverCount, sumDt, staleTime,
    pausedCounted,
    \* observation of the landmark provider
    provided, returned, sinceInvoke, input,
    \* the objects the last cleanup has dropped
    removed,
    \* setupFallbackControls: its locals and its pending setTimeout calls
    isMouseDown, mouseTrail, clearPending,
    \* ModernHandTracker's raw positions kept for smoothing
    handHistory

vars == <<gameState, startCountdown, startCountdownTimer,
          restartCountdown, restartCountdownTimer, lastFrameTime,
          startActive, restartActive, countdownText, restartText,
          startScreenHidden, pauseScreenHidden, gameOverScreenHidden,
          timers, nextTimerId, loopPending,
          score, timeRemaining, isGameOver,
          isPaused, clockRunning, clockAutoStart, clockOldTime,
          gameTime, spawnInterval, lastSpawnTime, fruits, bombs,
          cuttingPaths, hands, tracker, trails, isInitialized,
          sinceDetection, detectionIntervalMs,
          lastOp, fired, cut, spawned, skipped, gameOverCount, sumDt,
          staleTime, pausedCounted, provided, returned, sinceInvoke,
          input, removed, isMouseDown, mouseTrail, clearPending,
          handHistory>>

\* The whole program state as one record, so that a handler and the handlers
\* it calls are operators from state to state.
World ==
    [gameState |-> gameState, startCountdown |-> startCountdown,
     startCountdownTimer |-> startCountdownTimer,
     restartCountdown |-> restartCountdown,
     restartCountdownTimer |-> restartCountdownTimer,
     lastFrameTime |-> lastFrameTime,
     startActive |-> startActive, restartActive |-> restartActive,
     countdownText |-> countdownText, restartText |-> restartText,
     startScreenHidden |-> startScreenHidden,
     pauseScreenHidden |-> pauseScreenHidden,
     gameOverScreenHidden |-> gameOverScreenHidden,
     timers |-> timers, nextTimerId |-> nextTimerId,
     loopPending |-> loopPending,
     score |-> score, timeRemaining |-> timeRemaining,
     isGameOver |-> isGameOver,
     isPaused |-> isPaused, clockRunning |-> clockRunning,
     clockAutoStart |-> clockAutoStart, clockOldTime |-> clockOldTime,
     gameTime |-> gameTime, spawnInterval |-> spawnInterval,
     lastSpawnTime |-> lastSpawnTime, fruits |-> fruits, bombs |-> bombs,
     cuttingPaths |-> cuttingPaths, hands |-> hands,
     lastOp |-> lastOp, fired |-> fired, cut |-> cut, spawned |-> spawned,
     gameOverCount |-> gameOverCount,
     sumDt |-> sumDt, staleTime |-> staleTime,
     pausedCounted |-> pausedCounted, skipped |-> skipped,
     tracker |-> tracker, trails |-> trails,
     isInitialized |-> isInitialized, sinceDetection |-> sinceDetection,
     provided |-> provided, returned |-> returned,
     sinceInvoke |-> sinceInvoke,
     detectionIntervalMs |-> detectionIntervalMs,
     input |-> input, removed |-> removed,
     isMouseDown |-> isMouseDown, mouseTrail |-> mouseTrail,
     clearPending |-> clearPending, handHistory |-> handHistory]

Become(w) ==
    /\ gameState' = w.gameState
    /\ startCountdown' = w.startCountdown
    /\ startCountdownTimer' = w.startCountdownTimer
    /\ restartCountdown' = w.restartCountdown
    /\ restartCountdownTimer' = w.restartCountdownTimer
    /\ lastFrameTime' = w.lastFrameTime
    /\ startActive' = w.startActive
    /\ restartActive' = w.restartActive
    /\ countdownText' = w.countdownText
    /\ restartText' = w.restartText
    /\ startScreenHidden' = w.startScreenHidden
    /\ pauseScreenHidden' = w.pauseScreenHidden
    /\ gameOverScreenHidden' = w.gameOverScreenHidden
    /\ timers' = w.timers
    /\ nextTimerId' = w.nextTimerId
    /\ loopPending' = w.loopPending
    /\ score' = w.score
    /\ timeRemaining' = w.timeRemaining
    /\ isGameOver' = w.isGameOver
    /\ isPaused' = w.isPaused
    /\ clockRunning' = w.clockRunning
    /\ clockAutoStart' = w.clockAutoStart
    /\ clockOldTime' = w.clockOldTime
    /\ gameTime' = w.gameTime
    /\ spawnInterval' = w.spawnInterval
    /\ lastSpawnTime' = w.lastSpawnTime
    /\ fruits' = w.fruits
    /\ bombs' = w.bombs
    /\ cuttingPaths' = w.cuttingPaths
    /\ hands' = w.hands
    /\ lastOp' = w.lastOp
    /\ fired' = w.fired
    /\ cut' = w.cut
    /\ spawned' = w.spawned
    /\ gameOverCount' = w.gameOverCount
    /\ sumDt' = w.sumDt
    /\ staleTime' = w.staleTime
    /\ pausedCounted' = w.pausedCounted
    /\ skipped' = w.skipped
    /\ tracker' = w.tracker
    /\ trails' = w.trails
    /\ isInitialized' = w.isInitialized
    /\ sinceDetection' = w.sinceDetection
    /\ provided' = w.provided
    /\ returned' = w.returned
    /\ sinceInvoke' = w.sinceInvoke
    /\ detectionIntervalMs' = w.detectionIntervalMs
    /\ input' = w.input
    /\ removed' = w.removed
    /\ isMouseDown' = w.isMouseDown
    /\ mouseTrail' = w.mouseTrail
    /\ clearPending' = w.clearPending
    /\ handHistory' = w.handHistory

NoHand == [present |-> FALSE, x |-> 0, y |-> 0]

NoHands == [left |-> NoHand, right |-> NoHand]

\* What the last handler was handed from outside: nothing, the outcome of
\* the landmark provider, or the argument of setDetectionIntervalMs().
NoInput == [kind |-> "none", hands |-> NoHands, ms |-> 0]

\* What detectHands() returned: nothing yet, null, or a result object.
NoReturn == [kind |-> "none", landmarks |-> <<>>, handednesses |-> <<>>]

\* A handler starts with an empty log of the callbacks it fires.
Enter(op) ==
    [World EXCEPT !.lastOp = op, !.fired = <<>>, !.cut = <<>>,
                  !.spawned = <<>>, !.skipped = 0,
                  !.provided = 0, !.returned = NoReturn,
                  !.input = NoInput, !.removed = <<>>]

\* A callback is logged with the score, the time and the fruit type it
\* carries (0 and "none" for the ones a callback does not carry).
EmitCut(w, cb, fruitType) ==
    [w EXCEPT !.fired = Append(@, [cb |-> cb, score |-> 0, timeRemaining |-> 0,
                                   fruitType |-> fruitType])]

Emit(w, cb, s, t) ==
    [w EXCEPT !.fired = Append(@, [cb |-> cb, score |-> s, timeRemaining |-> t,
                                   fruitType |-> "none"])]


\* ------------------------------------------------------------ THREE.Clock
\* start(): oldTime = now, running = true.
Clock_start(w) == [w EXCEPT !.clockOldTime = 0, !.clockRunning = TRUE]

\* getDelta(): an auto-starting stopped clock starts and yields 0; a running
\* clock yields the time since oldTime and moves oldTime to now; a stopped
\* clock yields 0.
Clock_getDelta(w) ==
    IF w.clockAutoStart /\ ~w.clockRunning
    THEN [w |-> Clock_start(w), d |-> 0]
    ELSE IF w.clockRunning
         THEN [w |-> [w EXCEPT !.clockOldTime = 0], d |-> w.clockOldTime]
         ELSE [w |-> w, d |-> 0]

\* stop(): getElapsedTime() (a getDelta whose result is dropped), then
\* running = false, autoStart = false.
Clock_stop(w) ==
    [Clock_getDelta(w).w EXCEPT !.clockRunning = FALSE, !.clockAutoStart = FALSE,
                                !.clockOldTime = 0]

\* -------------------------------------------------------------- GameScene
\* setPaused() that leaves lastSpawnTime alone on resume.
setPaused_noRebase(w, paused) ==
    IF paused
    THEN Clock_stop([w EXCEPT !.isPaused = TRUE])
    ELSE Clock_start([w EXCEPT !.isPaused = FALSE])

setPaused(w, paused) ==
    IF paused
    THEN Clock_stop([w EXCEPT !.isPaused = TRUE])
    ELSE [Clock_start([w EXCEPT !.isPaused = FALSE]) EXCEPT
             !.lastSpawnTime = w.gameTime]

GameScene_reset(w) ==
    [w EXCEPT !.fruits = <<>>, !.bombs = <<>>, !.gameTime = 0,
              !.spawnInterval = 5, !.lastSpawnTime = 0, !.isPaused = TRUE]

\* ------------------------------------------------------- FruitCuttingGame
showGameOver(w, data) ==
    setPaused([w EXCEPT !.gameState = "gameover",
                        !.gameOverScreenHidden = FALSE], TRUE)

\* ------------------------------------------------------------ ScoreSystem
notifyScoreChange(w) == Emit(w, "onScoreChange", w.score, 0)

notifyTimeChange(w) == Emit(w, "onTimeChange", 0, w.timeRemaining)

endGame(w) ==
    IF w.isGameOver THEN w
    ELSE LET data == [score |-> w.score, timeRemaining |-> w.timeRemaining]
             w1 == [w EXCEPT !.isGameOver = TRUE,
                             !.gameOverCount = @ + 1]
         IN showGameOver(Emit(w1, "onGameOver", data.score, data.timeRemaining),
                         data)

ScoreSystem_start(w) ==
    notifyTimeChange(notifyScoreChange(
        [w EXCEPT !.score = 0, !.timeRemaining = ScoreSystem_gameTime,
                  !.isGameOver = FALSE, !.gameOverCount = 0,
                  !.sumDt = 0, !.pausedCounted = 0]))

\* reset() that leaves isGameOver as it is.
ScoreSystem_reset_keepOver(w) ==
    notifyTimeChange(notifyScoreChange(
        [w EXCEPT !.score = 0, !.timeRemaining = ScoreSystem_gameTime,
                  !.gameOverCount = 0, !.sumDt = 0, !.pausedCounted = 0]))

ScoreSystem_reset(w) ==
    notifyTimeChange(notifyScoreChange(
        [w EXCEPT !.score = 0, !.timeRemaining = ScoreSystem_gameTime,
                  !.isGameOver = FALSE, !.gameOverCount = 0,
                  !.sumDt = 0, !.pausedCounted = 0]))

\* update() that forgets to clamp timeRemaining at 0.
ScoreSystem_update_noClamp(w, deltaTime) ==
    IF w.isGameOver THEN w
    ELSE LET w1 == [w EXCEPT !.timeRemaining = @ - deltaTime,
                             !.sumDt = @ + deltaTime]
             w2 == IF w1.timeRemaining <= 0 THEN endGame(w1) ELSE w1
         IN notifyTimeChange(w2)

ScoreSystem_update(w, deltaTime) ==
    IF w.isGameOver THEN w
    ELSE LET w1 == [w EXCEPT !.timeRemaining = @ - deltaTime,
                             !.sumDt = @ + deltaTime]
             w2 == IF w1.timeRemaining <= 0
                   THEN endGame([w1 EXCEPT !.timeRemaining = 0])
                   ELSE w1
         IN notifyTimeChange(w2)

\* cutFruit() without the game-over latch.
ScoreSystem_cutFruit_noLatch(w, fruitType) ==
    LET w1 == notifyScoreChange([w EXCEPT !.score = @ + fruitCut])
    IN IF w1.score < 0 THEN endGame(w1) ELSE w1

\* cutFruit() that scores by fruit type.
ScoreSystem_cutFruit_byType(w, fruitType) ==
    IF w.isGameOver THEN w
    ELSE LET points == IF fruitType = "watermelon" THEN 2 * fruitCut
                       ELSE fruitCut
             w1 == notifyScoreChange([w EXCEPT !.score = @ + points])
         IN IF w1.score < 0 THEN endGame(w1) ELSE w1

ScoreSystem_cutFruit(w, fruitType) ==
    IF w.isGameOver THEN w
    ELSE LET w1 == notifyScoreChange([w EXCEPT !.score = @ + fruitCut])
         IN IF w1.score < 0 THEN endGame(w1) ELSE w1

\* cutBomb() without the check for a negative score.
ScoreSystem_cutBomb_noEnd(w) ==
    IF w.isGameOver THEN w
    ELSE notifyScoreChange([w EXCEPT !.score = @ + bombCut])

ScoreSystem_cutBomb(w) ==
    IF w.isGameOver THEN w
    ELSE LET w1 == notifyScoreChange([w EXCEPT !.score = @ + bombCut])
         IN IF w1.score < 0 THEN endGame(w1) ELSE w1


\* ----------------------------------------------------------- HandTracking
isHandInArea(h, x, y, width, height) ==
    \E hand \in {h.left, h.right} :
        /\ hand.present
        /\ hand.x >= x /\ hand.x <= x + width
        /\ hand.y >= y /\ hand.y <= y + height

\* ------------------------------------------- host: setInterval/clearInterval
\* The live interval timers in the order of their next firing.  All have a
\* period of one second, so the one that fires goes to the back of the
\* queue and a new one is queued last.
setInterval(w, kind) ==
    [w EXCEPT !.timers = Append(@, [id |-> w.nextTimerId, kind |-> kind,
                                    ticks |-> 0]),
              !.nextTimerId = @ + 1]

clearInterval(w, handle) ==
    [w EXCEPT !.timers = SelectSeq(@, LAMBDA t : t.id # handle)]

\* ------------------------------------------------------- FruitCuttingGame
StartRect == [x |-> 400, y |-> 250, width |-> 200, height |-> 80]
RestartRect == [x |-> 400, y |-> 400, width |-> 200, height |-> 80]

updateCountdown(w) ==
    [w EXCEPT !.countdownText = IF w.startCountdown > 0
                                THEN w.startCountdown ELSE 0]

updateRestartCountdown(w) ==
    [w EXCEPT !.restartText = IF w.restartCountdown > 0
                              THEN w.restartCountdown ELSE 0]

clearRestartCountdown(w) == [w EXCEPT !.restartText = 0]

gameLoop(w) ==
    IF w.gameState # "playing" THEN w
    ELSE LET deltaTime == IF w.lastFrameTime = NULL THEN 0
                          ELSE w.lastFrameTime
             w1 == ScoreSystem_update(
                       [w EXCEPT !.lastFrameTime = 0, !.staleTime = 0,
                                 !.pausedCounted =
                                     IF w.lastFrameTime = NULL THEN @
                                     ELSE @ + w.staleTime],
                       deltaTime)
         IN [w1 EXCEPT !.loopPending = @ + 1]

startGame(w) ==
    LET w1 == [w EXCEPT !.gameState = "playing",
                        !.startScreenHidden = TRUE,
                        !.pauseScreenHidden = TRUE,
                        !.gameOverScreenHidden = TRUE]
        w2 == setPaused(GameScene_reset(ScoreSystem_start(w1)), FALSE)
    IN gameLoop([w2 EXCEPT !.lastFrameTime = NULL, !.staleTime = 0])

\* togglePause() that resumes without resetting lastFrameTime.
togglePause_keepFrameTime(w) ==
    IF w.gameState = "playing"
    THEN setPaused([w EXCEPT !.gameState = "paused",
                             !.pauseScreenHidden = FALSE], TRUE)
    ELSE IF w.gameState = "paused"
    THEN gameLoop(setPaused([w EXCEPT !.gameState = "playing",
                                      !.pauseScreenHidden = TRUE], FALSE))
    ELSE w

togglePause(w) ==
    IF w.gameState = "playing"
    THEN setPaused([w EXCEPT !.gameState = "paused",
                             !.pauseScreenHidden = FALSE], TRUE)
    ELSE IF w.gameState = "paused"
    THEN LET w1 == setPaused([w EXCEPT !.gameState = "playing",
                                       !.pauseScreenHidden = TRUE], FALSE)
         IN gameLoop([w1 EXCEPT !.lastFrameTime = NULL, !.staleTime = 0,
                                !.skipped = w.staleTime])
    ELSE w

\* restartGame() that does not reset the ScoreSystem.
restartGame_keepScore(w) ==
    LET w1 == [w EXCEPT !.gameState = "idle",
                        !.gameOverScreenHidden = TRUE,
                        !.startScreenHidden = FALSE]
    IN GameScene_reset(w1)

restartGame(w) ==
    LET w1 == [w EXCEPT !.gameState = "idle",
                        !.gameOverScreenHidden = TRUE,
                        !.startScreenHidden = FALSE]
    IN GameScene_reset(ScoreSystem_reset(w1))

\* The callback of the start countdown's interval timer.
startCountdownTick(w) ==
    LET w1 == updateCountdown([w EXCEPT !.startCountdown = @ - 1])
    IN IF w1.startCountdown <= 0
       THEN startGame(clearInterval(w1, w1.startCountdownTimer))
       ELSE w1

\* The callback of the restart countdown's interval timer.
restartCountdownTick(w) ==
    LET w1 == updateRestartCountdown([w EXCEPT !.restartCountdown = @ - 1])
    IN IF w1.restartCountdown <= 0
       THEN restartGame(clearInterval(w1, w1.restartCountdownTimer))
       ELSE w1

\* checkStartButtonInteraction() whose abort only stops the timer.
checkStartButtonInteraction_keepActive(w) ==
    LET isHandOver == isHandInArea(w.hands, StartRect.x, StartRect.y,
                                   StartRect.width, StartRect.height)
    IN IF isHandOver
       THEN IF w.gameState = "idle"
            THEN LET w1 == updateCountdown(
                               [w EXCEPT !.gameState = "starting",
                                         !.startActive = TRUE,
                                         !.startCountdown = 3])
                 IN [setInterval(w1, "start") EXCEPT
                        !.startCountdownTimer = w1.nextTimerId]
            ELSE w
       ELSE IF w.gameState = "starting"
            THEN clearInterval([w EXCEPT !.gameState = "idle"],
                               w.startCountdownTimer)
            ELSE w

checkStartButtonInteraction(w) ==
    LET isHandOver == isHandInArea(w.hands, StartRect.x, StartRect.y,
                                   StartRect.width, StartRect.height)
    IN IF isHandOver
       THEN IF w.gameState = "idle"
            THEN LET w1 == updateCountdown(
                               [w EXCEPT !.gameState = "starting",
                                         !.startActive = TRUE,
                                         !.startCountdown = 3])
                 IN [setInterval(w1, "start") EXCEPT
                        !.startCountdownTimer = w1.nextTimerId]
            ELSE w
       ELSE IF w.gameState = "starting"
            THEN clearInterval([w EXCEPT !.gameState = "idle",
                                         !.startActive = FALSE,
                                         !.countdownText = 0],
                               w.startCountdownTimer)
            ELSE w

checkRestartButtonInteraction(w) ==
    LET isHandOver == isHandInArea(w.hands, RestartRect.x, RestartRect.y,
                                   RestartRect.width, RestartRect.height)
    IN IF isHandOver
       THEN IF w.gameState = "gameover"
            THEN LET w1 == updateRestartCountdown(
                               [w EXCEPT !.gameState = "restarting",
                                         !.restartActive = TRUE,
                                         !.restartCountdown = 3])
                 IN [setInterval(w1, "restart") EXCEPT
                        !.restartCountdownTimer = w1.nextTimerId]
            ELSE w
       ELSE IF w.gameState = "restarting"
            THEN clearInterval(clearRestartCountdown(
                                   [w EXCEPT !.gameState = "gameover",
                                             !.restartActive = FALSE]),
                               w.restartCountdownTimer)
            ELSE w

updateCuttingPaths(w, paths) == [w EXCEPT !.cuttingPaths = paths]

\* paths is the tracker's getCuttingPaths() at the callback.
onHandsDetected(w, paths) ==
    LET w1 == updateCuttingPaths(w, paths)
        w2 == IF w1.gameState \in {"idle", "starting"}
              THEN checkStartButtonInteraction(w1) ELSE w1
    IN IF w2.gameState \in {"gameover", "restarting"}
       THEN checkRestartButtonInteraction(w2) ELSE w2

onFruitCut(w, fruitType) ==
    ScoreSystem_cutFruit(EmitCut(w, "onFruitCut", fruitType), fruitType)

onBombCut(w) == ScoreSystem_cutBomb(EmitCut(w, "onBombCut", "none"))


\* -------------------------------------------------------------- GameScene
\* The canvas and the camera: camera at z = 10 looking at the origin with a
\* vertical field of view of 75 degrees, so an object in the plane z = 0 is
\* drawn ScreenH / (2 * 10 * tan 37.5) = 40 pixels per world unit from the
\* centre of a canvas 614 pixels high.
ScreenW == 1000
ScreenH == 614
PxPerUnit == 40
hitThreshold == 20
recentPoints == 5
offScreenY == 0 - 10
gravity == 4

worldToScreen(worldPos) ==
    [x |-> ScreenW \div 2 + PxPerUnit * worldPos.x,
     y |-> ScreenH \div 2 - PxPerUnit * worldPos.y]

\* pointToLineDistance() that measures to the line through the end points.
pointToLineDistance_unclamped(point, lineStart, lineEnd) ==
    LET A == point.x - lineStart.x
        B == point.y - lineStart.y
        C == lineEnd.x - lineStart.x
        D == lineEnd.y - lineStart.y
        dot == A * C + B * D
        lenSq == C * C + D * D
    IN IF lenSq = 0 THEN [num |-> A * A + B * B, den |-> 1]
       ELSE [num |-> (A * A + B * B) * lenSq - dot * dot, den |-> lenSq]

\* pointToLineDistance(point, lineStart, lineEnd): the square of the value
\* returned, as the fraction num / den.  param = dot / lenSq (-1 when lenSq
\* is 0) is below 0 when dot < 0 and above 1 when dot > lenSq; between the
\* two (xx, yy) is the foot of the perpendicular, whose squared distance
\* from the point is (A^2 + B^2) - dot^2 / lenSq.
pointToLineDistance(point, lineStart, lineEnd) ==
    LET A == point.x - lineStart.x
        B == point.y - lineStart.y
        C == lineEnd.x - lineStart.x
        D == lineEnd.y - lineStart.y
        dot == A * C + B * D
        lenSq == C * C + D * D
    IN IF lenSq = 0 \/ dot < 0
       THEN [num |-> A * A + B * B, den |-> 1]
       ELSE IF dot > lenSq
       THEN [num |-> (point.x - lineEnd.x) * (point.x - lineEnd.x)
                     + (point.y - lineEnd.y) * (point.y - lineEnd.y),
             den |-> 1]
       ELSE [num |-> (A * A + B * B) * lenSq - dot * dot, den |-> lenSq]

\* pointToLineDistance(point, lineStart, lineEnd) < limit, without the square
\* root: the nearest point of the segment is an end point when the
\* projection parameter dot / lenSq is outside [0, 1] (or lenSq = 0, where
\* param = -1), the foot of the perpendicular otherwise.  A point farther
\* than limit from the segment's bounding box is at least that far from the
\* segment; that case is decided first, which keeps the products small.
pointToLineDistanceBelow(point, lineStart, lineEnd, limit) ==
    LET A == point.x - lineStart.x
        B == point.y - lineStart.y
        C == lineEnd.x - lineStart.x
        D == lineEnd.y - lineStart.y
        dot == A * C + B * D
        lenSq == C * C + D * D
        loX == IF C < 0 THEN lineEnd.x ELSE lineStart.x
        hiX == IF C < 0 THEN lineStart.x ELSE lineEnd.x
        loY == IF D < 0 THEN lineEnd.y ELSE lineStart.y
        hiY == IF D < 0 THEN lineStart.y ELSE lineEnd.y
    IN IF \/ point.x <= loX - limit \/ point.x >= hiX + limit
          \/ point.y <= loY - limit \/ point.y >= hiY + limit
       THEN FALSE
       ELSE IF lenSq = 0 \/ dot < 0
       THEN A * A + B * B < limit * limit
       ELSE IF dot > lenSq
       THEN (point.x - lineEnd.x) * (point.x - lineEnd.x)
            + (point.y - lineEnd.y) * (point.y - lineEnd.y) < limit * limit
       ELSE (A * A + B * B) * lenSq - dot * dot < limit * limit * lenSq

Min(a, b) == IF a < b THEN a ELSE b
Max(a, b) == IF a > b THEN a ELSE b

\* isPointOnPath() that tests every segment of a path.
isPointOnPath_wholeTrail(point, paths) ==
    \E k \in 1..Len(paths) :
        LET pts == paths[k].points
        IN \E i \in 0..(Len(pts) - 2) :
               pointToLineDistanceBelow(point, pts[i + 1], pts[i + 2],
                                        hitThreshold)

\* Sequences are indexed from 1: the code's index i is i + 1 here.
isPointOnPath(point, paths) ==
    \E k \in 1..Len(paths) :
        LET pts == paths[k].points
            recentPointsCount == Min(recentPoints, Len(pts))
            startIndex == Max(0, Len(pts) - recentPointsCount)
        IN \E i \in startIndex..(Len(pts) - 2) :
               pointToLineDistanceBelow(point, pts[i + 1], pts[i + 2],
                                        hitThreshold)

\* updateDifficulty() whose stages begin after 20 s and after 40 s.
updateDifficulty_late(w) ==
    [w EXCEPT !.spawnInterval = IF w.gameTime <= 20 THEN 5
                                ELSE IF w.gameTime <= 40 THEN 3 ELSE 2]

updateDifficulty(w) ==
    [w EXCEPT !.spawnInterval = IF w.gameTime < 20 THEN 5
                                ELSE IF w.gameTime < 40 THEN 3 ELSE 2]

\* The three launch patterns; the random offsets and the speed factor are
\* fixed at one value of their range.
NewObject(type, fruitType, spawnType) ==
    IF spawnType = 0
    THEN [type |-> type, fruitType |-> fruitType, isCut |-> FALSE,
          x |-> 0, y |-> 8, vx |-> 0, vy |-> 0 - 3]
    ELSE IF spawnType = 1
    THEN [type |-> type, fruitType |-> fruitType, isCut |-> FALSE,
          x |-> 0 - 7, y |-> 7, vx |-> 2, vy |-> 1]
    ELSE [type |-> type, fruitType |-> fruitType, isCut |-> FALSE,
          x |-> 7, y |-> 7, vx |-> 0 - 2, vy |-> 1]

\* spawned holds the objects the running handler has created.
spawnFruit(w, rnd) ==
    LET o == NewObject("fruit", rnd.fruitType, rnd.spawnType)
    IN [w EXCEPT !.fruits = Append(@, o), !.spawned = Append(@, o)]

spawnBomb(w, rnd) ==
    LET o == NewObject("bomb", "none", rnd.spawnType)
    IN [w EXCEPT !.bombs = Append(@, o), !.spawned = Append(@, o)]

\* spawnObjects() that does not record the time of the spawn.
spawnObjects_keepSpawnTime(w, deltaTime, rnd) ==
    IF w.isPaused THEN w
    ELSE IF 2 * (w.gameTime - w.lastSpawnTime) >= w.spawnInterval
         THEN IF rnd.isFruit THEN spawnFruit(w, rnd) ELSE spawnBomb(w, rnd)
         ELSE w

\* rnd holds the results of the Math.random() draws of one call.
spawnObjects(w, deltaTime, rnd) ==
    IF w.isPaused THEN w
    ELSE LET w1 == IF w.spawnInterval = 0
                   THEN [w EXCEPT !.spawnInterval = 5] ELSE w
         IN IF 2 * (w1.gameTime - w1.lastSpawnTime) >= w1.spawnInterval
            THEN LET w2 == [w1 EXCEPT !.lastSpawnTime = w1.gameTime]
                 IN IF rnd.isFruit THEN spawnFruit(w2, rnd)
                    ELSE spawnBomb(w2, rnd)
            ELSE w1

\* velocity.y -= gravity * dt; position += velocity * dt
MoveObject(o, deltaTime) ==
    IF o.isCut THEN o
    ELSE LET vy1 == o.vy - gravity * deltaTime
         IN [o EXCEPT !.vy = vy1, !.x = @ + o.vx * deltaTime,
                      !.y = @ + vy1 * deltaTime]

updateFruits(w, deltaTime) ==
    [w EXCEPT !.fruits = [i \in 1..Len(@) |-> MoveObject(@[i], deltaTime)]]

updateBombs(w, deltaTime) ==
    [w EXCEPT !.bombs = [i \in 1..Len(@) |-> MoveObject(@[i], deltaTime)]]

\* list.indexOf(o), counted from 1; 0 when o is not in the list.  Two live
\* objects of one list never have equal fields (they were spawned at
\* different game times), so equality of fields stands for identity.
indexOf(list, o) ==
    IF \E i \in 1..Len(list) : list[i] = o
    THEN CHOOSE i \in 1..Len(list) :
             list[i] = o /\ \A j \in 1..(i - 1) : list[j] # o
    ELSE 0

\* list.splice(i - 1, 1) when i > 0
splice(list, i) ==
    IF i > 0 THEN SubSeq(list, 1, i - 1) \o SubSeq(list, i + 1, Len(list))
    ELSE list

\* cutFruit() without the isCut guard at its start.
GameScene_cutFruit_noGuard(w, fruit) ==
    onFruitCut([w EXCEPT !.cut = Append(@, [fruit EXCEPT !.isCut = TRUE]),
                         !.fruits = splice(@, indexOf(@, fruit))],
               fruit.fruitType)

\* cut holds the objects whose userData.isCut the running handler has set.
GameScene_cutFruit(w, fruit) ==
    IF fruit.isCut THEN w
    ELSE onFruitCut(
             [w EXCEPT !.cut = Append(@, [fruit EXCEPT !.isCut = TRUE]),
                       !.fruits = splice(@, indexOf(@, fruit))],
             fruit.fruitType)

GameScene_cutBomb(w, bomb) ==
    IF bomb.isCut THEN w
    ELSE onBombCut(
             [w EXCEPT !.cut = Append(@, [bomb EXCEPT !.isCut = TRUE]),
                       !.bombs = splice(@, indexOf(@, bomb))])

\* this.fruits.forEach(...): visits the indices 0 .. n-1 of the list as it
\* is when each index comes up; an index past the current end is skipped.
RECURSIVE EachFruit(_, _, _)
EachFruit(w, i, n) ==
    IF i > n THEN w
    ELSE IF i > Len(w.fruits) THEN EachFruit(w, i + 1, n)
    ELSE IF ~w.fruits[i].isCut
            /\ isPointOnPath(worldToScreen(w.fruits[i]), w.cuttingPaths)
    THEN EachFruit(GameScene_cutFruit(w, w.fruits[i]), i + 1, n)
    ELSE EachFruit(w, i + 1, n)

RECURSIVE EachBomb(_, _, _)
EachBomb(w, i, n) ==
    IF i > n THEN w
    ELSE IF i > Len(w.bombs) THEN EachBomb(w, i + 1, n)
    ELSE IF ~w.bombs[i].isCut
            /\ isPointOnPath(worldToScreen(w.bombs[i]), w.cuttingPaths)
    THEN EachBomb(GameScene_cutBomb(w, w.bombs[i]), i + 1, n)
    ELSE EachBomb(w, i + 1, n)

checkCuttingCollisions(w) ==
    IF Len(w.cuttingPaths) = 0 THEN w
    ELSE LET w1 == EachFruit(w, 1, Len(w.fruits))
         IN EachBomb(w1, 1, Len(w1.bombs))

\* cleanupObjects() that keeps nothing at or below the threshold.
cleanupObjects_atThreshold(w) ==
    [w EXCEPT !.fruits = SelectSeq(@, LAMBDA o : ~(o.y <= offScreenY)),
              !.bombs = SelectSeq(@, LAMBDA o : ~(o.y <= offScreenY)),
              !.removed = SelectSeq(w.fruits, LAMBDA o : o.y <= offScreenY)
                          \o SelectSeq(w.bombs, LAMBDA o : o.y <= offScreenY)]

\* removed holds the objects the filters drop.
cleanupObjects(w) ==
    [w EXCEPT !.fruits = SelectSeq(@, LAMBDA o : ~(o.y < offScreenY)),
              !.bombs = SelectSeq(@, LAMBDA o : ~(o.y < offScreenY)),
              !.removed = SelectSeq(w.fruits, LAMBDA o : o.y < offScreenY)
                          \o SelectSeq(w.bombs, LAMBDA o : o.y < offScreenY)]

animate(w, rnd) ==
    LET g == Clock_getDelta(w)
        deltaTime == g.d
        w1 == updateDifficulty([g.w EXCEPT !.gameTime = @ + deltaTime])
        w2 == spawnObjects(w1, deltaTime, rnd)
        w3 == updateBombs(updateFruits(w2, deltaTime), deltaTime)
    IN cleanupObjects(checkCuttingCollisions(w3))


\* ================================================================ the game
\* The state after new FruitCuttingGame(): the constructors have run and
\* GameScene.init() has made the first animate() call, which starts the
\* clock and sets the spawn interval.
InitGame ==
    /\ gameState = "idle"
    /\ startCountdown = 0 /\ startCountdownTimer = NULL
    /\ restartCountdown = 0 /\ restartCountdownTimer = NULL
    /\ lastFrameTime = NULL
    /\ startActive = FALSE /\ restartActive = FALSE
    /\ countdownText = 0 /\ restartText = 0
    /\ startScreenHidden = FALSE /\ pauseScreenHidden = TRUE
    /\ gameOverScreenHidden = TRUE
    /\ timers = <<>> /\ nextTimerId = 1 /\ loopPending = 0
    /\ score = 0 /\ timeRemaining = 60 /\ isGameOver = FALSE
    /\ isPaused = TRUE
    /\ clockRunning = TRUE /\ clockAutoStart = TRUE /\ clockOldTime = 0
    /\ gameTime = 0 /\ spawnInterval = 5 /\ lastSpawnTime = 0
    /\ fruits = <<>> /\ bombs = <<>> /\ cuttingPaths = <<>>
    /\ hands = [left |-> NoHand, right |-> NoHand]
    /\ lastOp = "init" /\ fired = <<>> /\ cut = <<>> /\ spawned = <<>>
    /\ gameOverCount = 0
    /\ sumDt = 0 /\ staleTime = 0 /\ pausedCounted = 0
    /\ skipped = 0
    /\ trails = [left |-> <<>>, right |-> <<>>]
    /\ isInitialized = FALSE /\ sinceDetection = 0
    /\ provided = 0 /\ returned = NoReturn /\ sinceInvoke = NULL
    /\ detectionIntervalMs = initialDetectionIntervalMs
    /\ input = NoInput /\ removed = <<>>
    /\ isMouseDown = FALSE /\ mouseTrail = <<>> /\ clearPending = 0
    /\ handHistory = [left |-> <<>>, right |-> <<>>]

\* The game is built on HandTracking.
Init == InitGame /\ tracker = "HandTracking"

\* What the bounds allow a step to produce.
WithinBounds(w) ==
    /\ w.nextTimerId <= MaxTimers + 1
    /\ w.startCountdown >= 0 - MaxOverrun
    /\ w.restartCountdown >= 0 - MaxOverrun
    /\ w.loopPending <= MaxLoops
    /\ Len(w.fruits) + Len(w.bombs) <= MaxObjects

DtSet == {1, BigDt}

\* Wall-clock time passes: every stored reading gets older.  staleTime is
\* the part of lastFrameTime's age that passed outside the playing phase.
Advance(d) ==
    /\ clockRunning \/ lastFrameTime # NULL
    /\ lastFrameTime # NULL =>
           lastFrameTime + d <= (IF d < BigDt THEN MaxFineGap ELSE MaxElapsed)
    /\ clockRunning =>
           /\ clockOldTime + d <= (IF d < BigDt THEN MaxFineGap ELSE MaxElapsed)
           /\ gameTime + clockOldTime + d <=
                  (IF d < BigDt THEN MaxFineTime ELSE MaxGameTime)
    /\ Become([World EXCEPT
           !.lastOp = "advance", !.fired = <<>>, !.cut = <<>>,
           !.spawned = <<>>, !.skipped = 0, !.removed = <<>>,
           !.lastFrameTime = IF @ = NULL THEN NULL ELSE @ + d,
           !.clockOldTime = IF clockRunning THEN @ + d ELSE @,
           !.staleTime = IF lastFrameTime # NULL /\ gameState # "playing"
                         THEN @ + d ELSE @])

RECURSIVE RunLoops(_, _)
RunLoops(w, n) == IF n = 0 THEN w ELSE RunLoops(gameLoop(w), n - 1)

\* One display frame: the pending requestAnimationFrame callbacks run in the
\* order of their registration, animate first (it re-registers at its
\* start), then the gameLoop callbacks.
Frame(rnd) ==
    LET w1 == animate(Enter("frame"), rnd)
        w2 == RunLoops([w1 EXCEPT !.loopPending = 0], w1.loopPending)
    IN WithinBounds(w2) /\ Become(w2)

\* The hands of a detection result: none, a right hand over the start
\* button, a left hand over the restart button.
HandsSet ==
    { [left |-> NoHand, right |-> NoHand],
      [left |-> NoHand, right |-> [present |-> TRUE, x |-> 540, y |-> 267]],
      [left |-> [present |-> TRUE, x |-> 500, y |-> 440], right |-> NoHand] }

\* The tracker's getCuttingPaths() for these hands: the right hand came in
\* with a stroke through the screen position of world point (0, 1), the
\* left hand has not moved.
getCuttingPaths(h) ==
    IF h.right.present
    THEN << [hand |-> "right",
             points |-> << [x |-> 460, y |-> 267],
                           [x |-> h.right.x, y |-> h.right.y] >>] >>
    ELSE <<>>

\* A detection result arrives: the tracker stores the hands it found
\* (updateHands) and calls the game back.
Detect(h) ==
    LET w1 == onHandsDetected([Enter("detect") EXCEPT !.hands = h],
                              getCuttingPaths(h))
    IN WithinBounds(w1) /\ Become(w1)

\* The interval timer at the head of the queue fires.
TimerFire ==
    /\ timers # <<>>
    /\ LET t == [Head(timers) EXCEPT !.ticks = Min(@ + 1, MaxTicks)]
           w0 == [Enter("timer") EXCEPT !.timers = Append(Tail(timers), t)]
           w1 == IF t.kind = "start" THEN startCountdownTick(w0)
                 ELSE restartCountdownTick(w0)
       IN WithinBounds(w1) /\ Become(w1)

\* keydown with code Space.
KeySpace ==
    LET w1 == togglePause(Enter("togglePause"))
    IN WithinBounds(w1) /\ Become(w1)

\* A click on the restart button of the game-over screen.
ClickRestart ==
    /\ ~gameOverScreenHidden
    /\ Become(restartGame(Enter("clickRestart")))

RndSet ==
    [isFruit : BOOLEAN, fruitType : {fruitTypes[1], fruitTypes[2]},
     spawnType : 0..1]

\* The draws of a scene that spawns one type of fruit.
SpawnRnd == {rnd \in RndSet : rnd.fruitType = fruitTypes[1]}

Next ==
    \/ \E d \in DtSet : Advance(d)
    \/ \E rnd \in RndSet : Frame(rnd)
    \/ \E h \in HandsSet : Detect(h)
    \/ TimerFire
    \/ KeySpace
    \/ ClickRestart

Spec == Init /\ [][Next]_vars


\* ===================================================== ScoreSystem on its own
\* The ScoreSystem of the game (callbacks wired as in init()), its methods
\* called in any order by a caller.
ScoreDts == {0, 1, 7, BigDt}

StartCall == Become(ScoreSystem_start(Enter("start")))

ResetCall == Become(ScoreSystem_reset(Enter("reset")))

UpdateCall(deltaTime) ==
    Become(ScoreSystem_update(Enter("update"), deltaTime))

CutFruitCall(fruitType) ==
    /\ score < MaxScore
    /\ Become(ScoreSystem_cutFruit(Enter("cutFruit"), fruitType))

CutBombCall == Become(ScoreSystem_cutBomb(Enter("cutBomb")))

NextScore ==
    \/ StartCall
    \/ ResetCall
    \/ \E deltaTime \in ScoreDts : UpdateCall(deltaTime)
    \/ \E i \in 1..Len(fruitTypes) : CutFruitCall(fruitTypes[i])
    \/ CutBombCall

SpecScore == Init /\ [][NextScore]_vars

\* The callbacks of one kind in a log.
Fired(log, cb) == SelectSeq(log, LAMBDA e : e.cb = cb)

\* C1: onGameOver is invoked at most once between two start()/reset()
\* calls, and the call that makes the score negative invokes it exactly
\* once, with the score of that moment.
C1_GameOverOnce ==
    [][ /\ gameOverCount' <= 1
        /\ Len(Fired(fired', "onGameOver")) <= 1
        /\ (score >= 0 /\ score' < 0) =>
               /\ Len(Fired(fired', "onGameOver")) = 1
               /\ Fired(fired', "onGameOver")[1].score = score'
               /\ gameOverCount' = 1 ]_vars

C1_Witness ==
    /\ lastOp = "cutBomb" /\ score = 0 - 10 /\ gameOverCount = 1
    /\ Len(Fired(fired, "onGameOver")) = 1

\* C2: once the game is over, cutFruit, cutBomb and update change neither
\* score nor timeRemaining and fire no notification.
C2_LatchedNoOps ==
    [][ (isGameOver /\ lastOp' \in {"cutFruit", "cutBomb", "update"}) =>
            /\ score' = score
            /\ timeRemaining' = timeRemaining
            /\ isGameOver'
            /\ fired' = <<>> ]_vars

C2_Witness ==
    /\ isGameOver /\ lastOp = "cutFruit" /\ fired = <<>> /\ score = 0 - 20

C4_Timeout ==
    [][ /\ timeRemaining' >= 0
        /\ timeRemaining' = Max(0, 60 - sumDt')
        /\ score' >= 0 => (isGameOver' <=> sumDt' >= 60)
        /\ (lastOp' = "update" /\ ~isGameOver /\ isGameOver') =>
               /\ timeRemaining' = 0
               /\ gameOverCount' = 1
               /\ Len(Fired(fired', "onGameOver")) = 1
               /\ Fired(fired', "onGameOver")[1].score = score
               /\ Fired(fired', "onGameOver")[1].timeRemaining = 0 ]_vars

C4_Witness ==
    /\ lastOp = "update" /\ sumDt = 61 /\ timeRemaining = 0 /\ score = 0
    /\ isGameOver /\ gameOverCount = 1


\* ============================================================ the composed game
\* C5: only time that passed while the phase was playing is subtracted from
\* timeRemaining: no deltaTime handed to update contains time of another
\* phase, a frame taken while paused does not run update, no step taken from
\* paused subtracts time, and the resume step runs update with deltaTime 0.
C5_PausedTimeNotCounted ==
    [][ /\ pausedCounted' = 0
        /\ gameState = "paused" =>
               \/ sumDt' = sumDt /\ timeRemaining' = timeRemaining
               \/ sumDt' = 0 /\ timeRemaining' = ScoreSystem_gameTime
        /\ (gameState = "paused" /\ lastOp' = "frame") =>
               Len(Fired(fired', "onTimeChange")) = 0
        /\ (gameState = "paused" /\ lastOp' = "togglePause") =>
               /\ gameState' = "playing"
               /\ lastFrameTime' = 0
               /\ Len(Fired(fired', "onTimeChange")) = 1
               /\ Fired(fired', "onTimeChange")[1].timeRemaining
                      = timeRemaining ]_vars

C5_Witness ==
    /\ gameState = "playing" /\ lastOp = "togglePause" /\ skipped > 0
    /\ lastFrameTime = 0
    /\ sumDt > 0 /\ timeRemaining = ScoreSystem_gameTime - sumDt

\* C6: while the game is paused a frame moves no object, runs no collision
\* test, cuts no object and fires neither onFruitCut nor onBombCut.
C6_NoTickWhilePaused ==
    [][ (gameState = "paused" /\ lastOp' = "frame") =>
            /\ fruits' = fruits
            /\ bombs' = bombs
            /\ Len(Fired(fired', "onFruitCut")) = 0
            /\ Len(Fired(fired', "onBombCut")) = 0 ]_vars

PhaseEdges ==
    { <<"idle", "starting">>, <<"starting", "playing">>,
      <<"playing", "paused">>, <<"paused", "playing">>,
      <<"playing", "gameover">>, <<"gameover", "restarting">>,
      <<"restarting", "idle">>, <<"starting", "idle">>,
      <<"restarting", "gameover">> }

\* C7: every change of the phase follows one of the edges of the session
\* state machine.
C7_PhaseEdges ==
    [][ gameState' # gameState => <<gameState, gameState'>> \in PhaseEdges ]_vars

\* C8: a session starts (playing is entered other than by resuming from
\* paused) only from starting, by the third tick of the start countdown's
\* timer, which brings the countdown from 3 to 0; the countdown is set to 3
\* on entering starting and changes only by a timer tick.
C8_StartAfterThreeTicks ==
    [][ /\ (gameState' = "playing" /\ gameState \notin {"playing", "paused"}) =>
               /\ gameState = "starting"
               /\ lastOp' = "timer"
               /\ Head(timers).kind = "start"
               /\ Head(timers).ticks = 2
               /\ startCountdown = 1 /\ startCountdown' = 0
        /\ (gameState = "paused" /\ gameState' = "playing") =>
               lastOp' = "togglePause"
        /\ (gameState = "idle" /\ gameState' = "starting") =>
               startCountdown' = 3 /\ lastOp' = "detect"
        /\ (startCountdown' # startCountdown /\ gameState' # "starting") =>
               lastOp' = "timer" ]_vars

HandOverStart(h) ==
    isHandInArea(h, StartRect.x, StartRect.y, StartRect.width, StartRect.height)

\* C9: a detection without a hand over the start button during starting
\* returns the phase to idle and cancels the countdown: the timer of the
\* handle is gone and no start countdown timer is left to tick, so that
\* playing can only be entered through a new countdown.
C9_AbortCancelsCountdown ==
    [][ (gameState = "starting" /\ lastOp' = "detect"
           /\ ~HandOverStart(hands')) =>
            /\ gameState' = "idle"
            /\ \A i \in 1..Len(timers') :
                   /\ timers'[i].id # startCountdownTimer'
                   /\ timers'[i].kind # "start" ]_vars

\* C10: restarting is entered only from gameover; the tick that completes
\* the restart countdown leaves the phase idle with score 0, timeRemaining
\* 60, no live object and the scene paused; and from idle the phase moves
\* only to starting.
C10_RestartToIdle ==
    [][ /\ (gameState' = "restarting" /\ gameState # "restarting") =>
               gameState = "gameover"
        /\ (lastOp' = "timer" /\ Head(timers).kind = "restart"
              /\ restartCountdown <= 1) =>
               /\ gameState' = "idle"
               /\ score' = 0 /\ timeRemaining' = ScoreSystem_gameTime
               /\ fruits' = <<>> /\ bombs' = <<>> /\ isPaused'
        /\ gameState = "idle" => gameState' \in {"idle", "starting"} ]_vars

\* ======================================================= GameScene on its own
\* The scene of the game (callbacks wired as in init()): frames arrive d
\* seconds apart, and a caller pauses, resumes and resets the scene, hands it
\* cutting paths and calls the cut resolution of an object it holds.
SceneTick(d, rnd) ==
    LET w0 == [Enter("tick") EXCEPT
                  !.clockOldTime = IF clockRunning THEN @ + d ELSE @]
        w1 == animate(w0, rnd)
    IN /\ w0.clockOldTime <= MaxElapsed
       /\ w1.gameTime <= MaxGameTime
       /\ WithinBounds(w1)
       /\ Become(w1)

SceneSetPaused(paused) == Become(setPaused(Enter("setPaused"), paused))

SceneReset == Become(GameScene_reset(Enter("sceneReset")))

ScenePaths(paths) == Become(updateCuttingPaths(Enter("paths"), paths))

\* cutFruit / cutBomb called on a live object
SceneCut(o) ==
    Become(IF o.type = "fruit" THEN GameScene_cutFruit(Enter("cut"), o)
           ELSE GameScene_cutBomb(Enter("cut"), o))

\* cutFruit / cutBomb called again on an object the previous step has cut
SceneCutAgain(o) ==
    Become(IF o.type = "fruit" THEN GameScene_cutFruit(Enter("cutAgain"), o)
           ELSE GameScene_cutBomb(Enter("cutAgain"), o))

Elems(seq) == {seq[i] : i \in 1..Len(seq)}

\* ------------------------------------------------- the collision test
\* Frames one second apart (or none) in the first seconds of a session and
\* in the first seconds after game time 40, where an object is spawned
\* every second and two objects are on screen together.
CutDts == {0, 1, 40}

Stroke(x1, y1, x2, y2) ==
    << [hand |-> "right",
        points |-> << [x |-> x1, y |-> y1], [x |-> x2, y |-> y2] >>] >>

Pt(x, y) == [x |-> x, y |-> y]

\* A trail of six points that leaves to the right: its first segment passes
\* through (500, 267) when it starts at x = 460, its second segment when it
\* starts at x = 300.
Trail(x1) ==
    << [hand |-> "right",
        points |-> << Pt(x1, 267), Pt(x1 + 80, 267), Pt(x1 + 240, 267),
                      Pt(650, 300), Pt(700, 300), Pt(750, 300) >>] >>

\* Two-point paths around the screen position (500, 267) of world point
\* (0, 1): horizontal strokes 0, 19, 20 and 21 pixels below it, strokes that
\* end 19, 20 and 21 pixels to its left, slanted strokes 15, 20 and 25
\* pixels from it, and a stroke from (380, 427) (world (-3, -3)) to it; and
\* the two trails.
CutPathSet ==
    { <<>>, Trail(460), Trail(300),
      Stroke(460, 267, 540, 267), Stroke(460, 286, 540, 286),
      Stroke(460, 287, 540, 287), Stroke(460, 288, 540, 288),
      Stroke(400, 267, 481, 267), Stroke(400, 267, 480, 267),
      Stroke(400, 267, 479, 267),
      Stroke(469, 225, 549, 285), Stroke(472, 221, 552, 281),
      Stroke(475, 217, 555, 277),
      Stroke(380, 427, 500, 267) }

CutTick(d, rnd) ==
    /\ SceneTick(d, rnd)
    /\ \/ gameTime' <= MaxFineTime
       \/ gameTime' >= 40 /\ gameTime' <= 40 + MaxFineTime

NextCut ==
    \/ \E d \in CutDts, rnd \in SpawnRnd : CutTick(d, rnd)
    \/ \E paused \in BOOLEAN : SceneSetPaused(paused)
    \/ \E paths \in CutPathSet : ScenePaths(paths)
    \/ \E o \in Elems(fruits) \cup Elems(bombs) : SceneCut(o)
    \/ \E o \in Elems(cut) : SceneCutAgain(o)

SpecCut == Init /\ [][NextCut]_vars

CutCallbacks(log) ==
    SelectSeq(log, LAMBDA e : e.cb \in {"onFruitCut", "onBombCut"})

\* C11: cut resolution takes effect at most once per object: every object a
\* step cuts has isCut set, has left the live lists and got exactly one
\* callback (onFruitCut with its fruit type, onBombCut for a bomb), no object
\* is cut twice in a step, and cut resolution called again on an object with
\* isCut set fires no callback and changes nothing.
C11_CutOnce ==
    [][ /\ Len(CutCallbacks(fired')) = Len(cut')
        /\ \A k \in 1..Len(cut') :
               /\ cut'[k].isCut
               /\ [cut'[k] EXCEPT !.isCut = FALSE]
                      \notin Elems(fruits') \cup Elems(bombs')
               /\ \A j \in 1..Len(cut') : cut'[j] = cut'[k] => j = k
               /\ CutCallbacks(fired')[k].cb =
                      (IF cut'[k].type = "fruit" THEN "onFruitCut"
                       ELSE "onBombCut")
               /\ CutCallbacks(fired')[k].fruitType = cut'[k].fruitType
        /\ lastOp' = "cutAgain" =>
               /\ fired' = <<>> /\ cut' = <<>>
               /\ fruits' = fruits /\ bombs' = bombs /\ score' = score ]_vars

C11_Witness ==
    /\ lastOp = "cutAgain" /\ score = fruitCut /\ fired = <<>>

Sq(n) == n * n

\* The closest point of the segment a-b to p is a, b, or the foot of the
\* perpendicular from p when that lies between them; the distance to the
\* foot is |cross| / |b - a|.  A point beyond the segment's bounding box by
\* lim or more is at least lim away.
InReach(p, a, b, lim) ==
    /\ p.x > Min(a.x, b.x) - lim /\ p.x < Max(a.x, b.x) + lim
    /\ p.y > Min(a.y, b.y) - lim /\ p.y < Max(a.y, b.y) + lim

FootInside(p, a, b) ==
    LET dot == (p.x - a.x) * (b.x - a.x) + (p.y - a.y) * (b.y - a.y)
    IN dot > 0 /\ dot < Sq(b.x - a.x) + Sq(b.y - a.y)

Cross(p, a, b) == (b.x - a.x) * (p.y - a.y) - (b.y - a.y) * (p.x - a.x)

SegmentNearer(p, a, b, lim) ==
    /\ InReach(p, a, b, lim)
    /\ \/ Sq(p.x - a.x) + Sq(p.y - a.y) < Sq(lim)
       \/ Sq(p.x - b.x) + Sq(p.y - b.y) < Sq(lim)
       \/ /\ FootInside(p, a, b)
          /\ Sq(Cross(p, a, b)) < Sq(lim) * (Sq(b.x - a.x) + Sq(b.y - a.y))

SegmentFarther(p, a, b, lim) ==
    \/ ~InReach(p, a, b, lim + 1)
    \/ /\ Sq(p.x - a.x) + Sq(p.y - a.y) > Sq(lim)
       /\ Sq(p.x - b.x) + Sq(p.y - b.y) > Sq(lim)
       /\ FootInside(p, a, b) =>
              Sq(Cross(p, a, b)) > Sq(lim) * (Sq(b.x - a.x) + Sq(b.y - a.y))

TwoPointPath(paths) == Len(paths) = 1 /\ Len(paths[1].points) = 2

\* C12: with one cutting path of two points, a frame's collision pass cuts
\* every live object whose screen position is nearer than 20 pixels to the
\* segment and cuts no object that is farther than 20 pixels from it.
C12_HitThreshold ==
    [][ (lastOp' = "tick" /\ TwoPointPath(cuttingPaths')) =>
            LET a == cuttingPaths'[1].points[1]
                b == cuttingPaths'[1].points[2]
            IN /\ \A o \in Elems(cut') :
                      ~SegmentFarther(worldToScreen(o), a, b, hitThreshold)
               /\ \A o \in Elems(fruits') \cup Elems(bombs') :
                      ~SegmentNearer(worldToScreen(o), a, b, hitThreshold)
      ]_vars

\* The segments between the last 5 points of a trail.
RecentSegments(pts) ==
    { <<pts[j], pts[j + 1]>> : j \in Max(1, Len(pts) - 4)..(Len(pts) - 1) }

SpawnDts == {0, 1, 2, 20, 45}

NextScene ==
    \/ \E d \in SpawnDts, rnd \in SpawnRnd : SceneTick(d, rnd)
    \/ \E paused \in BOOLEAN : SceneSetPaused(paused)
    \/ SceneReset

SpecScene == Init /\ [][NextScene]_vars

\* The spawn interval the difficulty curve gives at game time t, in half
\* seconds.
IntervalAt(t) == IF t < 20 THEN 5 ELSE IF t < 40 THEN 3 ELSE 2

\* C14: a tick of an unpaused scene spawns exactly one object and sets
\* lastSpawnTime to gameTime if gameTime - lastSpawnTime has reached the
\* interval of the current game time, and spawns nothing and leaves
\* lastSpawnTime alone otherwise; a tick of a paused scene spawns nothing;
\* so no tick spawns two objects and a spawn is at least one interval of
\* game time after the one before.
C14_SpawnWhenDue ==
    [][ lastOp' = "tick" =>
            LET due == 2 * (gameTime' - lastSpawnTime) >= IntervalAt(gameTime')
            IN /\ Len(spawned') <= 1
               /\ (~isPaused /\ due) =>
                      Len(spawned') = 1 /\ lastSpawnTime' = gameTime'
               /\ (isPaused \/ ~due) =>
                      spawned' = <<>> /\ lastSpawnTime' = lastSpawnTime ]_vars

\* a spawn at the interval of one second, exactly one second after the last
C14_Witness ==
    /\ lastOp = "tick" /\ Len(spawned) = 1 /\ gameTime = 42
    /\ lastSpawnTime = gameTime /\ Len(fruits) + Len(bombs) = 2

\* The scene was paused by setPaused(true), which stops the clock, and has
\* not been resumed since.
PausedByCall == isPaused /\ ~clockRunning

\* What every step does to the interval besides the stages it may move
\* through: only a tick or a reset changes it, after a tick it is the
\* interval of the game time, it grows only by a reset, and a tick of a
\* scene paused by setPaused(true) adds nothing to the game time.
IntervalFollowsTime(stages) ==
    /\ spawnInterval' # spawnInterval => lastOp' \in {"tick", "sceneReset"}
    /\ spawnInterval' > spawnInterval => lastOp' = "sceneReset"
    /\ spawnInterval' < spawnInterval =>
           /\ <<spawnInterval, spawnInterval'>> \in stages
           /\ spawnInterval = 5 => gameTime < 20
           /\ spawnInterval = 3 => gameTime < 40
           /\ spawnInterval' = 3 => gameTime' >= 20
           /\ spawnInterval' = 2 => gameTime' >= 40
    /\ lastOp' = "tick" /\ ~isPaused => spawnInterval' = IntervalAt(gameTime')
    /\ lastOp' = "tick" /\ PausedByCall =>
           gameTime' = gameTime /\ spawnInterval' = spawnInterval

\* C15: within a session (between two resets) the spawn interval never
\* increases and its only changes are from 2.5 s to 1.5 s, when the unpaused
\* time reaches 20 s, and from 1.5 s to 1.0 s, when it reaches 40 s, so each
\* happens once; time spent paused does not count.
C15_IntervalStages ==
    [][IntervalFollowsTime({<<5, 3>>, <<3, 2>>})]_vars

\* C15 as the code has it: the interval is the table's value at the game
\* time after every unpaused tick, never increases between two resets, and
\* each stage is entered at most once; a tick that carries the game time
\* from below 20 s to 40 s or more goes from 2.5 s to 1.0 s directly and the
\* 1.5 s stage is left out; time spent paused does not count.
C15_IntervalCurve ==
    [][ /\ IntervalFollowsTime({<<5, 3>>, <<3, 2>>, <<5, 2>>})
        /\ <<spawnInterval, spawnInterval'>> = <<5, 2>> =>
               gameTime < 20 /\ gameTime' >= 40 ]_vars

\* the 1.5 s stage begins in the tick that brings the game time to 20 s
C15_Witness ==
    /\ lastOp = "tick" /\ ~isPaused /\ gameTime = 20 /\ spawnInterval = 3

\* C16: a resume sets lastSpawnTime to the current gameTime and spawns
\* nothing; the first tick after it spawns only if it alone adds a full
\* interval of game time, and every later spawn is a full interval of game
\* time after lastSpawnTime, which no step but a reset moves back; the time
\* spent paused adds nothing to the game time.
C16_ResumeRebases ==
    [][ /\ (lastOp' = "setPaused" /\ ~isPaused') =>
               /\ lastSpawnTime' = gameTime'
               /\ gameTime' = gameTime
               /\ spawned' = <<>>
        /\ (lastOp' = "tick" /\ lastOp = "setPaused" /\ ~isPaused
                /\ spawned' # <<>>) =>
               2 * (gameTime' - gameTime) >= IntervalAt(gameTime')
        /\ (lastOp' = "tick" /\ spawned' # <<>>) =>
               2 * (gameTime' - lastSpawnTime) >= IntervalAt(gameTime')
        /\ lastSpawnTime' < lastSpawnTime => lastOp' = "sceneReset"
        /\ (lastOp' = "tick" /\ PausedByCall) => gameTime' = gameTime ]_vars

\* a resume at game time 2, before the first spawn was due
C16_Witness ==
    /\ lastOp = "setPaused" /\ ~isPaused /\ clockRunning
    /\ gameTime = 2 /\ lastSpawnTime = 2 /\ fruits = <<>> /\ bombs = <<>>

\* C17: a tick of the scene with isPaused set (before the first start, while
\* paused, after game over, after a reset) leaves gameTime unchanged, and a
\* tick adds nothing but its delta, so gameTime is the sum of the deltas of
\* the unpaused ticks.
C17_PausedTicksKeepTime ==
    [][ lastOp' \in {"tick", "frame"} =>
            /\ isPaused => gameTime' = gameTime
            /\ gameTime' >= gameTime ]_vars


\* ======================================================== the hand trackers
\* HandTracking (the tracker the game is built on) and ModernHandTracker.
\* Their time is in milliseconds; a trail point's timestamp and
\* lastDetectionTime are kept as the time passed since (now - timestamp,
\* currentTime - lastDetectionTime), followed up to MaxPointAge.
MaxPointAge == 400
\* steps of 15 and 16 ms are explored while no reading is older than this
MaxFineAge == 0

HandTracking_maxTrailLength == 25
HandTracking_trailRetentionTime == 350
ModernHandTracker_maxTrailLength == 20
ModernHandTracker_trailRetentionTime == 250

Older(age, ms) == Min(age + ms, MaxPointAge)

\* trail.filter(point => now - point.timestamp < retention)
filterTrail(trail, retention) ==
    SelectSeq(trail, LAMBDA point : point.age < retention)

\* {x, y, timestamp: now}
TrailPoint(hand) == [x |-> hand.x, y |-> hand.y, age |-> 0]

\* updateTrails() for one hand whose length limit drops the second oldest
\* point.
HandTracking_updateTrail_dropSecond(trail, hand) ==
    LET pushed == Append(trail, TrailPoint(hand))
        t1 == IF hand.present
              THEN IF Len(pushed) > HandTracking_maxTrailLength
                   THEN <<Head(pushed)>> \o Tail(Tail(pushed)) ELSE pushed
              ELSE filterTrail(trail, HandTracking_trailRetentionTime)
    IN filterTrail(t1, HandTracking_trailRetentionTime)

\* updateTrails() for one hand, without the length limit.
HandTracking_updateTrail_noShift(trail, hand) ==
    filterTrail(IF hand.present THEN Append(trail, TrailPoint(hand))
                ELSE filterTrail(trail, HandTracking_trailRetentionTime),
                HandTracking_trailRetentionTime)

\* HandTracking.updateTrails() for one hand: push and shift when the hand is
\* there, filter when it is not, then filter in both cases.
HandTracking_updateTrail(trail, hand) ==
    LET pushed == Append(trail, TrailPoint(hand))
        t1 == IF hand.present
              THEN IF Len(pushed) > HandTracking_maxTrailLength
                   THEN Tail(pushed) ELSE pushed
              ELSE filterTrail(trail, HandTracking_trailRetentionTime)
    IN filterTrail(t1, HandTracking_trailRetentionTime)

HandTracking_updateTrails(w) ==
    [w EXCEPT !.trails =
        [left |-> HandTracking_updateTrail(@.left, w.hands.left),
         right |-> HandTracking_updateTrail(@.right, w.hands.right)]]

\* ModernHandTracker.updateTrails() for one hand: push and shift when the
\* hand is there, then filter.
ModernHandTracker_updateTrail(trail, hand) ==
    LET pushed == Append(trail, TrailPoint(hand))
        t1 == IF hand.present
              THEN IF Len(pushed) > ModernHandTracker_maxTrailLength
                   THEN Tail(pushed) ELSE pushed
              ELSE trail
    IN filterTrail(t1, ModernHandTracker_trailRetentionTime)

ModernHandTracker_updateTrails(w) ==
    [w EXCEPT !.trails =
        [left |-> ModernHandTracker_updateTrail(@.left, w.hands.left),
         right |-> ModernHandTracker_updateTrail(@.right, w.hands.right)]]

\* getCuttingPaths() of either tracker: a path for each trail of two points
\* or more, the left hand's first.
PathOf(hand, trail) ==
    [hand |-> hand,
     points |-> [i \in 1..Len(trail) |-> [x |-> trail[i].x, y |-> trail[i].y]]]

\* getCuttingPaths() that makes a path of every trail that has a point.
trailPaths_anyPoint(w) ==
    (IF Len(w.trails.left) >= 1
     THEN <<PathOf("left", w.trails.left)>> ELSE <<>>)
    \o (IF Len(w.trails.right) >= 1
        THEN <<PathOf("right", w.trails.right)>> ELSE <<>>)

trailPaths(w) ==
    (IF Len(w.trails.left) >= 2
     THEN <<PathOf("left", w.trails.left)>> ELSE <<>>)
    \o (IF Len(w.trails.right) >= 2
        THEN <<PathOf("right", w.trails.right)>> ELSE <<>>)

\* HandTracking.onResults(results): h is what updateHands() makes of the
\* landmarks; the callback given to the constructor is the game's
\* onHandsDetected, which asks the tracker for its cutting paths.
HandTracking_onResults(w, h) ==
    LET w1 == HandTracking_updateTrails([w EXCEPT !.hands = h])
    IN onHandsDetected(w1, trailPaths(w1))

\* getLastResults(): the landmarks and the handedness of the tracked hands,
\* the left hand's first.
getLastResults(w) ==
    [kind |-> "results",
     landmarks |-> (IF w.hands.left.present THEN <<w.hands.left>> ELSE <<>>)
                   \o (IF w.hands.right.present THEN <<w.hands.right>>
                       ELSE <<>>),
     handednesses |-> (IF w.hands.left.present THEN <<"Left">> ELSE <<>>)
                      \o (IF w.hands.right.present THEN <<"Right">>
                          ELSE <<>>)]

Return(w, value) == [w EXCEPT !.returned = value]

ReturnNull(w) ==
    Return(w, [kind |-> "null", landmarks |-> <<>>, handednesses |-> <<>>])

\* The sum of the positions of a history with the weights 1, 2, ..., n.
RECURSIVE WeightedSum(_, _)
WeightedSum(history, n) ==
    IF n = 0 THEN [x |-> 0, y |-> 0]
    ELSE LET rest == WeightedSum(history, n - 1)
         IN [x |-> rest.x + n * history[n].x,
             y |-> rest.y + n * history[n].y]

pushHistory(history, currentPos) ==
    LET pushed == Append(history, currentPos)
    IN IF Len(pushed) > historyLength THEN Tail(pushed) ELSE pushed

\* smoothHandPosition() that does not smooth.
smoothHandPosition_raw(history, currentPos) == currentPos

\* smoothHandPosition(currentPos, handLabel) on the history of the hand
\* after the push: the weights (i + 1) / n sum to (n + 1) / 2, so the
\* result is the sum with the weights 1..n divided by n (n + 1) / 2.  The
\* positions are chosen so that the division is exact.
smoothHandPosition(history, currentPos) ==
    LET h == pushHistory(history, currentPos)
        n == Len(h)
        sum == WeightedSum(h, n)
    IN IF n < 2 THEN currentPos
       ELSE [x |-> sum.x \div ((n * (n + 1)) \div 2),
             y |-> sum.y \div ((n * (n + 1)) \div 2)]

\* The part of processResults() for one hand of the result.
processHand(history, raw) ==
    IF raw.present
    THEN LET p == smoothHandPosition(history, [x |-> raw.x, y |-> raw.y])
         IN [present |-> TRUE, x |-> p.x, y |-> p.y]
    ELSE NoHand

\* processResults(results): the hands are reset first; reading the
\* landmarks of a null result throws a TypeError; otherwise result.hands
\* holds the raw screen position of each hand of the landmarks, which is
\* pushed on the hand's history and smoothed.
processResults(w, result) ==
    LET w0 == [w EXCEPT !.hands = NoHands]
        w1 == [w0 EXCEPT
                  !.hands = [left |-> processHand(w.handHistory.left,
                                                  result.hands.left),
                             right |-> processHand(w.handHistory.right,
                                                   result.hands.right)],
                  !.handHistory =
                      [left |-> IF result.hands.left.present
                                THEN pushHistory(@.left,
                                         [x |-> result.hands.left.x,
                                          y |-> result.hands.left.y])
                                ELSE @.left,
                       right |-> IF result.hands.right.present
                                 THEN pushHistory(@.right,
                                          [x |-> result.hands.right.x,
                                           y |-> result.hands.right.y])
                                 ELSE @.right]]
    IN IF result.kind = "null" THEN [w |-> w0, threw |-> TRUE]
       ELSE [w |-> ModernHandTracker_updateTrails(w1), threw |-> FALSE]

\* detectForVideo(): the landmark provider is invoked and returns
\* landmarks, returns null or throws.
detectForVideo(w, result) ==
    [w EXCEPT !.provided = @ + 1, !.sinceInvoke = 0,
              !.input = [kind |-> result.kind, hands |-> result.hands,
                         ms |-> 0]]

\* detectHands() without the throttle.
detectHands_noThrottle(w, videoReady, result) ==
    IF ~w.isInitialized THEN ReturnNull(w)
    ELSE LET w1 == [w EXCEPT !.sinceDetection = 0]
         IN IF ~videoReady THEN ReturnNull(w1)
            ELSE IF result.kind = "throws"
            THEN ReturnNull(detectForVideo(w1, result))
            ELSE LET r == processResults(detectForVideo(w1, result), result)
                 IN IF r.threw THEN ReturnNull(r.w)
                    ELSE Return(r.w, getLastResults(r.w))

\* detectHands(currentTime), called with the current time: videoReady says
\* whether the video element exists and has a frame, result is what the
\* provider does when it is invoked.
detectHands(w, videoReady, result) ==
    IF ~w.isInitialized THEN ReturnNull(w)
    ELSE IF w.sinceDetection < w.detectionIntervalMs
    THEN Return(w, getLastResults(w))
    ELSE LET w1 == [w EXCEPT !.sinceDetection = 0]
         IN IF ~videoReady THEN ReturnNull(w1)
            ELSE IF result.kind = "throws"
            THEN ReturnNull(detectForVideo(w1, result))
            ELSE LET r == processResults(detectForVideo(w1, result), result)
                 IN IF r.threw THEN ReturnNull(r.w)
                    ELSE Return(r.w, getLastResults(r.w))

\* setDetectionIntervalMs(intervalMs): the value is stored.
setDetectionIntervalMs(w, intervalMs) ==
    [w EXCEPT !.detectionIntervalMs = intervalMs,
              !.input = [kind |-> "ms", hands |-> NoHands, ms |-> intervalMs]]

\* initialize(): isInitialized is set when the landmarker and the camera
\* came up, and cleared when one of them failed.
ModernHandTracker_initialize(w, ok) == [w EXCEPT !.isInitialized = ok]

\* stop(): the landmarker is closed.
ModernHandTracker_stop(w) == [w EXCEPT !.isInitialized = FALSE]

\* ------------------------------------------------- the trackers on their own
\* Either tracker after its constructor, its methods called in any order.
InitTrackers == InitGame /\ tracker \in {"HandTracking", "ModernHandTracker"}

\* The hands of a result: none, the right hand, both; away from the buttons.
ProviderHands ==
    { [left |-> NoHand, right |-> NoHand],
      [left |-> NoHand, right |-> [present |-> TRUE, x |-> 300, y |-> 200]],
      [left |-> [present |-> TRUE, x |-> 200, y |-> 200],
       right |-> [present |-> TRUE, x |-> 300, y |-> 200]] }

\* The results HandTracking is given: no hand or both hands.
TrackHands == {h \in ProviderHands : h.left.present = h.right.present}

ProviderResults ==
    {[kind |-> "landmarks", hands |-> h] : h \in ProviderHands}
    \cup {[kind |-> k, hands |-> NoHands] : k \in {"null", "throws"}}

\* Arguments of setDetectionIntervalMs(): two rates, zero, a negative one.
IntervalSet == {initialDetectionIntervalMs, 33, 0, 0 - 1}

TrackDts == {200, 400}
FineDts == {15, 16}

AgeTrail(trail, ms) ==
    [i \in 1..Len(trail) |-> [trail[i] EXCEPT !.age = Older(@, ms)]]

\* ms milliseconds pass on the trackers' clocks.
Elapsed(w, ms) ==
    [w EXCEPT !.trails = [left |-> AgeTrail(@.left, ms),
                          right |-> AgeTrail(@.right, ms)],
              !.sinceDetection = Older(@, ms),
              !.sinceInvoke = IF @ = NULL THEN NULL ELSE Older(@, ms)]

AllNew(trail) == \A i \in 1..Len(trail) : trail[i].age <= MaxFineAge

\* No frame runs here, so the readings of the scene's clock are not used
\* and are left alone.
TrackAdvance(ms) ==
    /\ ms \in FineDts =>
           /\ tracker = "ModernHandTracker"
           /\ sinceDetection <= MaxFineAge
           /\ AllNew(trails.left) /\ AllNew(trails.right)
    /\ Become(Elapsed(Enter("advance"), ms))

TrackResults(h) ==
    /\ tracker = "HandTracking"
    /\ LET w1 == HandTracking_onResults(Enter("onResults"), h)
       IN WithinBounds(w1) /\ Become(w1)

TrackDetect(videoReady, result) ==
    /\ tracker = "ModernHandTracker"
    /\ Become(detectHands(Enter("detectHands"), videoReady, result))

TrackSetInterval(intervalMs) ==
    /\ tracker = "ModernHandTracker"
    /\ Become(setDetectionIntervalMs(Enter("setDetectionIntervalMs"),
                                     intervalMs))

TrackInitialize(ok) ==
    /\ tracker = "ModernHandTracker"
    /\ Become(ModernHandTracker_initialize(Enter("initialize"), ok))

TrackStop ==
    /\ tracker = "ModernHandTracker"
    /\ Become(ModernHandTracker_stop(Enter("stop")))

NextTrackers ==
    \/ \E ms \in TrackDts \cup FineDts : TrackAdvance(ms)
    \/ \E h \in TrackHands : TrackResults(h)
    \/ \E videoReady \in BOOLEAN, result \in ProviderResults :
           TrackDetect(videoReady, result)
    \/ \E ok \in BOOLEAN : TrackInitialize(ok)
    \/ TrackStop

SpecTrackers == InitTrackers /\ [][NextTrackers]_vars

\* The length limit and the retention window of the tracker at hand.
TrailLimit ==
    IF tracker = "HandTracking" THEN HandTracking_maxTrailLength
    ELSE ModernHandTracker_maxTrailLength

RetentionWindow ==
    IF tracker = "HandTracking" THEN HandTracking_trailRetentionTime
    ELSE ModernHandTracker_trailRetentionTime

\* The last step has run updateTrails().
TrailsUpdated ==
    \/ lastOp = "onResults"
    \/ lastOp = "detectHands" /\ provided > 0 /\ returned.kind = "results"

\* C18: after every trail update each hand's trail holds at most
\* maxTrailLength points and none of them is older than the retention
\* window at the time of the update.
C18_TrailBounded ==
    TrailsUpdated =>
        \A hand \in {"left", "right"} :
            /\ Len(trails[hand]) <= TrailLimit
            /\ \A i \in 1..Len(trails[hand]) :
                   trails[hand][i].age <= RetentionWindow

\* a full trail of HandTracking whose oldest point is 200 ms old
C18_Witness ==
    /\ lastOp = "onResults" /\ tracker = "HandTracking"
    /\ Len(trails.right) = HandTracking_maxTrailLength
    /\ trails.right[1].age = 200 /\ hands.right.present

\* The result a detection leaves behind for later calls: the tracked hands.
CachedResult ==
    [kind |-> "results",
     landmarks |-> SelectSeq(<<hands.left, hands.right>>,
                             LAMBDA hand : hand.present),
     handednesses |-> SelectSeq(<<"Left", "Right">>,
                                LAMBDA label : IF label = "Left"
                                               THEN hands.left.present
                                               ELSE hands.right.present)]

\* C20: detectHands invokes the provider at most once, and only when
\* currentTime - lastDetectionTime has reached detectionIntervalMs; a call
\* of an initialized tracker made sooner returns the cached result, does not
\* invoke the provider and leaves hands and trails as they are; two
\* invocations of the provider are at least one interval apart.
C20_Throttled ==
    [][ lastOp' = "detectHands" =>
            /\ provided' <= 1
            /\ provided' = 1 =>
                   /\ sinceDetection >= detectionIntervalMs
                   /\ sinceInvoke = NULL \/ sinceInvoke >= detectionIntervalMs
            /\ (isInitialized /\ sinceDetection < detectionIntervalMs) =>
                   /\ provided' = 0
                   /\ returned' = CachedResult
                   /\ hands' = hands /\ trails' = trails ]_vars

\* a call 15 ms after a detection that found the right hand
C20_Witness ==
    /\ lastOp = "detectHands" /\ provided = 0 /\ sinceDetection = 15
    /\ returned.kind = "results" /\ returned.handednesses = <<"Right">>
    /\ hands.right.present /\ Len(trails.right) = 1

\* ------------------------------------------------ HandTracking in the game
\* The game on its start screen with the tracker's results and the display
\* frames arriving in any order, one second or no time apart.
TrailDts == {1000}

TrailAdvance(ms) ==
    LET d == ms \div 1000
    IN /\ clockRunning => gameTime + clockOldTime + d <= MaxFineTime
       /\ Become([Elapsed(Enter("advance"), ms) EXCEPT
              !.lastFrameTime = IF @ = NULL THEN NULL ELSE @ + d,
              !.clockOldTime = IF clockRunning THEN @ + d ELSE @,
              !.staleTime = IF lastFrameTime # NULL /\ gameState # "playing"
                            THEN @ + d ELSE @])

TrailResults(h) ==
    LET w1 == HandTracking_onResults(Enter("onResults"), h)
    IN WithinBounds(w1) /\ Become(w1)

NextTrail ==
    \/ \E ms \in TrailDts : TrailAdvance(ms)
    \/ \E h \in ProviderHands : TrailResults(h)
    \/ \E rnd \in SpawnRnd : Frame(rnd)

SpecTrail == Init /\ [][NextTrail]_vars

\* C19: after every frame, with or without a detection result, no trail
\* point is older than the retention window, and the cutting paths of the
\* scene hold no path of a hand whose newest trail point is older than the
\* retention window.
C19_StaleTrailsFade ==
    lastOp = "frame" =>
        \A hand \in {"left", "right"} :
            /\ \A i \in 1..Len(trails[hand]) :
                   trails[hand][i].age <= RetentionWindow
            /\ (trails[hand] # <<>>
                    /\ trails[hand][Len(trails[hand])].age > RetentionWindow) =>
                   \A i \in 1..Len(cuttingPaths) : cuttingPaths[i].hand # hand

\* C21: a call of detectHands on which the landmark provider throws does
\* not pass the exception on and returns the cached result, the value a
\* throttled call would have returned at that moment.
C21_ThrowReturnsCached ==
    [][ (lastOp' = "detectHands" /\ input'.kind = "throws") =>
            returned' = CachedResult ]_vars

IsSuffix(t, trail) ==
    \E k \in 0..Len(trail) : t = SubSeq(trail, k + 1, Len(trail))

\* The start button, the restart button and the whole canvas.
Rects ==
    {StartRect, RestartRect,
     [x |-> 0, y |-> 0, width |-> ScreenW, height |-> ScreenH]}

\* C22: a detection on which the provider returns null, returns no
\* landmarks or throws leaves no hand tracked (isHandInArea is false for
\* every rectangle) and appends no point to a trail.
C22_NothingIsNoHands ==
    [][ (lastOp' = "detectHands"
            /\ \/ input'.kind \in {"null", "throws"}
               \/ input'.kind = "landmarks" /\ input'.hands = NoHands) =>
            /\ \A rect \in Rects :
                   ~isHandInArea(hands', rect.x, rect.y, rect.width,
                                 rect.height)
            /\ \A hand \in {"left", "right"} :
                   IsSuffix(trails'[hand], trails[hand]) ]_vars

\* ------------------------------------- ModernHandTracker and its interval
\* The tracker with its detection interval set at any time; the provider
\* finds no hand or the right hand.
InitInterval == InitGame /\ tracker = "ModernHandTracker"

IntervalResults ==
    {result \in ProviderResults :
        result.kind = "landmarks" /\ ~result.hands.left.present}

\* One interval of the constructor, or a pause that empties the trails.
IntervalDts == {initialDetectionIntervalMs, MaxPointAge}

NextInterval ==
    \/ \E ms \in IntervalDts : TrackAdvance(ms)
    \/ \E intervalMs \in IntervalSet : TrackSetInterval(intervalMs)
    \/ \E result \in IntervalResults : TrackDetect(TRUE, result)
    \/ \E ok \in BOOLEAN : TrackInitialize(ok)

SpecInterval == InitInterval /\ [][NextInterval]_vars

\* C23: setDetectionIntervalMs(ms) with ms <= 0 is rejected with an error
\* and leaves detectionIntervalMs at its previous value, so the interval in
\* use is always positive.
C23_RejectsNonPositive ==
    [][ /\ (lastOp' = "setDetectionIntervalMs" /\ input'.ms <= 0) =>
               /\ returned'.kind = "error"
               /\ detectionIntervalMs' = detectionIntervalMs
        /\ detectionIntervalMs' > 0 ]_vars

\* C24: an object whose y position is below -10 at cleanup leaves the scene
\* in that tick without an onFruitCut or onBombCut callback and without a
\* change of the score; objects at or above that position are kept: after
\* a tick no live object is below -10, the objects the tick dropped were all
\* below -10 and uncut, every object of the tick is live, cut or dropped,
\* the cut callbacks are those of the cut objects, and a tick that cuts
\* nothing leaves the score alone.
C24_OffScreenRemoved ==
    [][ lastOp' = "tick" =>
            /\ \A o \in Elems(fruits') \cup Elems(bombs') : o.y >= offScreenY
            /\ \A k \in 1..Len(removed') :
                   removed'[k].y < offScreenY /\ ~removed'[k].isCut
            /\ Len(fruits) + Len(bombs) + Len(spawned') =
                   Len(fruits') + Len(bombs') + Len(cut') + Len(removed')
            /\ Len(CutCallbacks(fired')) = Len(cut')
            /\ cut' = <<>> => score' = score ]_vars

\* a tick drops one object and keeps another exactly at the threshold
C24_Witness ==
    /\ lastOp = "tick" /\ removed # <<>> /\ cut = <<>>
    /\ CutCallbacks(fired) = <<>>
    /\ \E o \in Elems(fruits) \cup Elems(bombs) : o.y = offScreenY

HandOverRestart(h) ==
    isHandInArea(h, RestartRect.x, RestartRect.y, RestartRect.width,
                 RestartRect.height)

\* What a hover-confirm countdown shows and holds.
Confirming ==
    <<gameState, startActive, restartActive, countdownText, restartText,
      startCountdown, restartCountdown, startCountdownTimer,
      restartCountdownTimer, timers, nextTimerId>>

\* C25: a detection that aborts a hover-confirm countdown (no hand over the
\* start button during starting, over the restart button during restarting)
\* clears the button's active marker and the countdown display and stops
\* the countdown's timer; a detection without a hand over the button that
\* finds the countdown already aborted changes nothing of the countdowns.
C25_AbortClearsMarkers ==
    [][ lastOp' = "detect" =>
            /\ (gameState = "starting" /\ ~HandOverStart(hands')) =>
                   /\ gameState' = "idle"
                   /\ ~startActive' /\ countdownText' = 0
                   /\ \A i \in 1..Len(timers') :
                          timers'[i].id # startCountdownTimer
            /\ (gameState = "restarting" /\ ~HandOverRestart(hands')) =>
                   /\ gameState' = "gameover"
                   /\ ~restartActive' /\ restartText' = 0
                   /\ \A i \in 1..Len(timers') :
                          timers'[i].id # restartCountdownTimer
            /\ (gameState = "idle" /\ ~HandOverStart(hands')) =>
                   Confirming' = Confirming
            /\ (gameState = "gameover" /\ ~HandOverRestart(hands')) =>
                   Confirming' = Confirming ]_vars

\* a start countdown that had ticked once was aborted
C25_Witness ==
    /\ lastOp = "detect" /\ gameState = "idle" /\ hands = NoHands
    /\ startCountdown = 2 /\ countdownText = 0 /\ ~startActive
    /\ timers = <<>>

\* C26: in every reachable state of the ScoreSystem the game is over
\* exactly when the score is negative or no time remains.
C26_GameOverIff ==
    isGameOver <=> (score < 0 \/ timeRemaining = 0)

\* a bomb has ended the game with time left
C26_Witness ==
    /\ lastOp = "cutBomb" /\ isGameOver /\ score < 0 /\ timeRemaining > 0

\* --------------------------------------------- the fallback controls alone
\* setupFallbackControls(): the listeners it puts on the canvas.  The
\* timestamp of a trail point is never read and is left out.
mouseTrailLength == 25

addMousePoint(w, x, y) ==
    LET pushed == Append(w.mouseTrail, Pt(x, y))
        trail == IF Len(pushed) > mouseTrailLength THEN Tail(pushed)
                 ELSE pushed
        w1 == [w EXCEPT !.mouseTrail = trail]
    IN IF Len(trail) >= 2
       THEN updateCuttingPaths(w1, << [hand |-> "mouse", points |-> trail] >>)
       ELSE w1

clearMouseTrail(w) == updateCuttingPaths([w EXCEPT !.mouseTrail = <<>>], <<>>)

mousedown(w, x, y) == addMousePoint([w EXCEPT !.isMouseDown = TRUE], x, y)

mousemove(w, x, y) == IF w.isMouseDown THEN addMousePoint(w, x, y) ELSE w

\* setTimeout(clearMouseTrail, 300)
mouseup(w) == [w EXCEPT !.isMouseDown = FALSE, !.clearPending = @ + 1]

\* touchstart and touchmove have the same body.
touchmove(w, x, y) == addMousePoint(w, x, y)

touchend(w) == [w EXCEPT !.clearPending = @ + 1]

\* The camera could not be opened and the user has closed the error
\* overlay: no detection result ever arrives, and the user drags over the
\* canvas, within reach of the world point (0, 1), and presses Space.  A
\* drag has at most MaxDrag points and at most MaxClears clearing timeouts
\* are pending.
MaxDrag == 3
MaxClears == 2

MousePoints == {Pt(460, 267), Pt(540, 267)}

MouseDown(p) ==
    /\ Len(mouseTrail) < MaxDrag
    /\ Become(mousedown(Enter("mousedown"), p.x, p.y))

MouseMove(p) ==
    /\ Len(mouseTrail) < MaxDrag
    /\ Become(mousemove(Enter("mousemove"), p.x, p.y))

MouseUp ==
    /\ clearPending < MaxClears
    /\ Become(mouseup(Enter("mouseup")))

TouchMove(p) ==
    /\ Len(mouseTrail) < MaxDrag
    /\ Become(touchmove(Enter("touchmove"), p.x, p.y))

TouchEnd ==
    /\ clearPending < MaxClears
    /\ Become(touchend(Enter("touchend")))

\* A pending setTimeout(clearMouseTrail, 300) fires.
ClearTimeout ==
    /\ clearPending > 0
    /\ Become(clearMouseTrail([Enter("clearMouseTrail") EXCEPT
                                  !.clearPending = @ - 1]))

NextFallback ==
    \/ \E d \in DtSet : Advance(d)
    \/ \E rnd \in SpawnRnd : Frame(rnd)
    \/ \E p \in MousePoints : MouseDown(p)
    \/ \E p \in MousePoints : MouseMove(p)
    \/ MouseUp
    \/ \E p \in MousePoints : TouchMove(p)
    \/ TouchEnd
    \/ ClearTimeout
    \/ KeySpace

SpecFallback == Init /\ [][NextFallback]_vars

\* The browser goes on delivering frames, timeouts and user events.
SpecFallbackFair == SpecFallback /\ WF_vars(NextFallback)

\* C27: with the camera unavailable the game works with mouse and touch
\* alone: from idle, with no hand ever detected, a session reaches playing.
C27_MouseReachesPlaying == <>(gameState = "playing")

\* Under the fallback controls the phase never leaves idle and nothing is
\* ever spawned or cut.
FallbackStaysIdle ==
    /\ gameState = "idle" /\ isPaused
    /\ fruits = <<>> /\ bombs = <<>> /\ score = 0

\* ------------------------------------------------ the paths of moving hands
\* HandTracking with hands that move between results: the right hand at
\* one of two places, with or without the left hand, all away from the
\* buttons.  A trail gets at most MaxPathLen points.
MaxPathLen == 3

PathHands ==
    { [left |-> l, right |-> r] :
        l \in {NoHand, [present |-> TRUE, x |-> 200, y |-> 200]},
        r \in {NoHand, [present |-> TRUE, x |-> 300, y |-> 200],
               [present |-> TRUE, x |-> 340, y |-> 220]} }

PathResults(h) ==
    /\ TrackResults(h)
    /\ Len(trails'.left) <= MaxPathLen /\ Len(trails'.right) <= MaxPathLen

NextPaths ==
    \/ \E ms \in TrackDts : TrackAdvance(ms)
    \/ \E h \in PathHands : PathResults(h)

SpecPaths == Init /\ [][NextPaths]_vars

PathsFor(paths, hand) == SelectSeq(paths, LAMBDA path : path.hand = hand)

\* C28: getCuttingPaths returns exactly one path for each hand whose trail
\* has two points or more, with the points of the trail in their order, no
\* path for a hand whose trail has no point or one, and the empty list when
\* no hand has a trail: the paths the game is handed at a result are these.
C28_PathPerTrail ==
    [][ lastOp' = "onResults" =>
            /\ \A hand \in {"left", "right"} :
                   LET trail == trails'[hand]
                       mine == PathsFor(cuttingPaths', hand)
                   IN IF Len(trail) >= 2
                      THEN /\ Len(mine) = 1
                           /\ Len(mine[1].points) = Len(trail)
                           /\ \A i \in 1..Len(trail) :
                                  /\ mine[1].points[i].x = trail[i].x
                                  /\ mine[1].points[i].y = trail[i].y
                      ELSE mine = <<>>
            /\ Len(cuttingPaths') =
                   Len(PathsFor(cuttingPaths', "left"))
                   + Len(PathsFor(cuttingPaths', "right"))
            /\ (trails'.left = <<>> /\ trails'.right = <<>>) =>
                   cuttingPaths' = <<>> ]_vars

\* the right hand has moved between two results while the left hand has
\* just come in
C28_Witness ==
    /\ lastOp = "onResults"
    /\ Len(trails.left) = 1 /\ Len(trails.right) >= 2
    /\ trails.right[1].x # trails.right[2].x
    /\ Len(cuttingPaths) = 1

\* The seconds an object has been in flight: gravity has taken its upward
\* speed down from the launch speed of its pattern (NewObject) at the rate
\* of MoveObject.
FlightTime(o) == ((IF o.vx = 0 THEN 0 - 3 ELSE 1) - o.vy) \div gravity

\* The points cutting a live fruit awards in the state at hand.
PointsFor(fruit) == GameScene_cutFruit(World, fruit).score - score

\* C29: quick cuts earn a time bonus: of two fruits in flight, cutting the
\* one that appeared later (the quicker cut) awards more points than
\* cutting the one that has been in flight longer.
C29_QuickCutBonus ==
    ~isGameOver =>
        \A quick, late \in Elems(fruits) :
            FlightTime(quick) < FlightTime(late) =>
                PointsFor(quick) > PointsFor(late)

TimersOf(kind) == SelectSeq(timers, LAMBDA t : t.kind = kind)

\* C30: at every moment at most one start countdown timer and at most one
\* restart countdown timer exist, a start timer only while the phase is
\* starting and a restart timer only while it is restarting.
C30_OneTimerPerCountdown ==
    /\ Len(TimersOf("start")) <= 1
    /\ Len(TimersOf("restart")) <= 1
    /\ TimersOf("start") # <<>> => gameState = "starting"
    /\ TimersOf("restart") # <<>> => gameState = "restarting"

InSession == gameState \in {"playing", "paused"}

\* C31: a session runs down to its end: while the phase is playing or
\* paused the time remaining never grows, the score changes only by a cut,
\* and the phase leaves the session only for gameover, so that with frames
\* arriving and the game not left paused the session reaches gameover.
C31_SessionRunsDown ==
    [][ InSession =>
            /\ timeRemaining' <= timeRemaining
            /\ score' # score => cut' # <<>>
            /\ gameState' \in {"playing", "paused", "gameover"} ]_vars

\* C32: the score and the time remaining change only while the phase is
\* playing, or by the reset of a start or a restart: in every other phase a
\* step that changes one of them is a timer tick or a restart click that
\* leaves the score 0 and the time 60.
C32_FrozenOutsidePlaying ==
    [][ (gameState # "playing"
           /\ (score' # score \/ timeRemaining' # timeRemaining)) =>
            /\ lastOp' \in {"timer", "clickRestart"}
            /\ score' = 0 /\ timeRemaining' = ScoreSystem_gameTime ]_vars

\* C33: a collision pass cuts every live object whose screen position is
\* within the threshold of a tested segment, adjacent objects included: no
\* object that is left live by a frame is nearer than 20 pixels to a
\* segment among the last 5 points of a cutting path.
C33_NoObjectSkipped ==
    [][ lastOp' = "tick" =>
            \A o \in Elems(fruits') \cup Elems(bombs') :
                \A k \in 1..Len(cuttingPaths') :
                    \A seg \in RecentSegments(cuttingPaths'[k].points) :
                        ~SegmentNearer(worldToScreen(o), seg[1], seg[2],
                                       hitThreshold) ]_vars

\* Oldest point first: the timestamps do not decrease along the trail.
InTimeOrder(trail) ==
    \A i, j \in 1..Len(trail) : i < j => trail[i].age >= trail[j].age

\* A detection result that includes the hand has come in.
Detected(hand) ==
    /\ hands'[hand].present
    /\ \/ lastOp' = "onResults"
       \/ lastOp' = "detectHands" /\ input'.kind = "landmarks"

\* C34: each hand's trail is in non-decreasing timestamp order and is a
\* contiguous suffix of the points appended for the hand: a detection that
\* includes the hand leaves a suffix of the trail it found followed by the
\* new point, any other step but the passing of time leaves a suffix of
\* the trail it found; the length limit and the pruning by age take away
\* only the oldest points.
C34_TrailIsSuffix ==
    [][ \A hand \in {"left", "right"} :
            /\ InTimeOrder(trails'[hand])
            /\ lastOp' # "advance" =>
                   LET t == trails'[hand]
                   IN IF Detected(hand)
                      THEN /\ t # <<>>
                           /\ t[Len(t)] = TrailPoint(hands'[hand])
                           /\ IsSuffix(SubSeq(t, 1, Len(t) - 1), trails[hand])
                      ELSE IsSuffix(t, trails[hand])
      ]_vars

\* a full trail that holds an old point and new ones
C34_Witness ==
    /\ lastOp = "onResults"
    /\ Len(trails.right) = HandTracking_maxTrailLength
    /\ trails.right[1].age > 0
    /\ trails.right[2].age = 0

\* ---------------------------------------------- ModernHandTracker smoothing
\* The tracker with a right hand that moves between two places or is not
\* there; the coordinates are multiples of 6, so that every weighted
\* average is a whole number.
SmoothResults ==
    { [kind |-> "landmarks", hands |-> [left |-> NoHand, right |-> r]] :
        r \in {NoHand, [present |-> TRUE, x |-> 300, y |-> 204],
               [present |-> TRUE, x |-> 360, y |-> 216]} }

NextSmooth ==
    \/ \E ms \in IntervalDts : TrackAdvance(ms)
    \/ \E result \in SmoothResults : TrackDetect(TRUE, result)
    \/ \E ok \in BOOLEAN : TrackInitialize(ok)

SpecSmooth == InitInterval /\ [][NextSmooth]_vars

\* The raw position a detection result gave for the hand.
RawOf(hand) == [x |-> input'.hands[hand].x, y |-> input'.hands[hand].y]

Smoothed(hand) ==
    lastOp' = "detectHands" /\ input'.kind = "landmarks"
        /\ input'.hands[hand].present

\* C35: with a full history of 3 raw points h0, h1, h2 (oldest first) the
\* smoothed position of a hand is (1*h0 + 2*h1 + 3*h2) / 6 in each
\* coordinate; the history never holds more than 3 samples and loses its
\* oldest first.
C35_WeightedAverage ==
    [][ \A hand \in {"left", "right"} :
            /\ Len(handHistory'[hand]) <= 3
            /\ Smoothed(hand) =>
                   LET h == handHistory'[hand]
                   IN /\ h[Len(h)] = RawOf(hand)
                      /\ IsSuffix(SubSeq(h, 1, Len(h) - 1), handHistory[hand])
                      /\ Len(handHistory[hand]) >= 2 => Len(h) = 3
                      /\ Len(h) = 3 =>
                             /\ 6 * hands'[hand].x =
                                    h[1].x + 2 * h[2].x + 3 * h[3].x
                             /\ 6 * hands'[hand].y =
                                    h[1].y + 2 * h[2].y + 3 * h[3].y ]_vars

\* the hand has moved within a full history
C35_Witness ==
    /\ lastOp = "detectHands"
    /\ handHistory.right = << [x |-> 300, y |-> 204], [x |-> 360, y |-> 216],
                              [x |-> 360, y |-> 216] >>
    /\ hands.right = [present |-> TRUE, x |-> 350, y |-> 214]

\* C39: when a hand comes back after a detection without it, its first
\* blade point is its raw position: the position of the hand and the point
\* appended to its trail are what the result gave, with nothing of the
\* samples from before the absence.
C39_ReappearsRaw ==
    [][ \A hand \in {"left", "right"} :
            (Smoothed(hand) /\ ~hands[hand].present) =>
                /\ hands'[hand].x = RawOf(hand).x
                /\ hands'[hand].y = RawOf(hand).y
                /\ LET t == trails'[hand]
                   IN /\ t # <<>>
                      /\ t[Len(t)].x = RawOf(hand).x
                      /\ t[Len(t)].y = RawOf(hand).y ]_vars

\* ------------------------------------------ pointToLineDistance on its own
\* The function called with a point of a grid and segments between grid
\* points, the zero-length ones included.
DistPoints == {Pt(x, y) : x \in 0..4, y \in 0..4}
DistEnds == {Pt(x, y) : x \in 1..3, y \in {1, 3}}

DistanceCall(point, lineStart, lineEnd) ==
    Become([Enter("pointToLineDistance") EXCEPT
               !.input = [kind |-> "segment", point |-> point,
                          lineStart |-> lineStart, lineEnd |-> lineEnd],
               !.returned =
                   [kind |-> "distance",
                    squared |-> pointToLineDistance(point, lineStart,
                                                    lineEnd)]])

NextDistance ==
    \E point \in DistPoints, lineStart, lineEnd \in DistEnds :
        DistanceCall(point, lineStart, lineEnd)

SpecDistance == Init /\ [][NextDistance]_vars

DistSq(p, q) == Sq(p.x - q.x) + Sq(p.y - q.y)

\* C36: pointToLineDistance returns the distance from the point to the
\* nearest point of the segment: the distance to the single point of a
\* zero-length segment, the distance to the nearer end point when the
\* perpendicular from the point does not meet the segment, and the length
\* of that perpendicular when it does; so never more than the distance to
\* an end point.
C36_NearestOnSegment ==
    [][ lastOp' = "pointToLineDistance" =>
            LET p == input'.point
                a == input'.lineStart
                b == input'.lineEnd
                d == returned'.squared
                lenSq == DistSq(a, b)
            IN /\ d.den > 0
               /\ d.num <= DistSq(p, a) * d.den
               /\ d.num <= DistSq(p, b) * d.den
               /\ a = b => d.num = DistSq(p, a) * d.den
               /\ (a # b /\ FootInside(p, a, b)) =>
                      d.num * lenSq = Sq(Cross(p, a, b)) * d.den
               /\ (a # b /\ ~FootInside(p, a, b)) =>
                      d.num = Min(DistSq(p, a), DistSq(p, b)) * d.den ]_vars

\* a point beyond the end of a slanted segment
C36_Witness ==
    /\ lastOp = "pointToLineDistance"
    /\ input.point = Pt(4, 4)
    /\ input.lineStart = Pt(1, 1) /\ input.lineEnd = Pt(3, 3)
    /\ returned.squared = [num |-> 2, den |-> 1]

\* C37: in every reachable state of the composed game the ScoreSystem's
\* isGameOver is true exactly when the phase is gameover or restarting.
C37_GameOverMatchesPhase ==
    isGameOver <=> gameState \in {"gameover", "restarting"}

\* the restart countdown runs over an ended session
C37_Witness ==
    /\ gameState = "restarting" /\ isGameOver /\ restartCountdown = 2

\* C38: the start button carries the active marker only while the phase is
\* starting and the restart button only while it is restarting.
C38_MarkerOnlyWhileConfirming ==
    /\ startActive => gameState = "starting"
    /\ restartActive => gameState = "restarting"

====
